---- MODULE Spec2Model ----
(***************************************************************************)
(* Session coordinator of the SaveAction recorder (background service      *)
(* worker) and the EventListener of its content script.  Every async       *)
(* handler is split at its awaits: one action per synchronous segment, so  *)
(* that handlers interleave exactly where the JavaScript event loop lets   *)
(* them.                                                                   *)
(*                                                                         *)
(* null / undefined are modelled by the falsy value of the field's type:   *)
(* 0 for tab ids and times, "" for names.  chrome.storage.session holds a  *)
(* single key; no handler stores an empty array, so an absent key is the   *)
(* empty sequence.  Storage calls are taken to resolve; message sends to   *)
(* the page may reject.                                                    *)
(*                                                                         *)
(* One frame per kind of handler is kept (two for STOP_RECORDING), and    *)
(* one per SYNC_ACTION handler that can be in flight.  metadata (always    *)
(* null) and the recordings kept in chrome.storage.local (written, never   *)
(* read back by the coordinator) are left out.  The poll timer copies the  *)
(* stored array into actionCache                                           *)
(* (PollTick, PollRead).  A restart of the service worker (WorkerRestarted)*)
(* loads the module anew and keeps chrome.storage.session.                 *)
(*                                                                         *)
(* resp, pageReply, status, broadcast and restarted describe the last step *)
(* only: what it answered, what the page answered, what GET_STATUS         *)
(* returned, which STATUS_UPDATE it sent, whether it was a restart.        *)
(*                                                                         *)
(* Spec explores the data path (two actions, two timestamps, two           *)
(* sessions); SpecControl runs the same handlers under the smaller budget  *)
(* that the phase checks of start / pause / resume need; SpecSerial runs   *)
(* them one at a time; SpecLive is SpecControl with every suspended        *)
(* handler resumed eventually.  SpecPage follows the click, mousedown and  *)
(* dblclick handlers of the EventListener in one page.                     *)
(* SpecInput follows its input handler and debounce timer; SpecInputLive   *)
(* is SpecInput with due timers run and time passing.  SpecStops adds the  *)
(* frame of a second handleStopRecording to the handlers of SpecControl.   *)
(* SpecRestore follows the content script of a newly loaded page, which    *)
(* asks the coordinator for the status, beside the handlers that change    *)
(* the phase.                                                              *)
(*                                                                         *)
(* The pure functions are called once per run on an argument drawn from a  *)
(* bounded set, the call and its result being kept in a variable:          *)
(* SpecSanitizer calls sanitizeValue and sanitizeAction, SpecSelector      *)
(* calls generateSelectors, SpecValidator calls validateRecording.  Their  *)
(* strings are sequences of characters.                                    *)
(***************************************************************************)
EXTENDS Integers, Sequences, FiniteSets, TLC

\* ---- bounds -------------------------------------------------------------
\* runs of Spec
MaxActions == 2        \* SYNC_ACTION requests accepted over the whole run
MaxTimestamp == 2      \* action timestamps are drawn from 1..MaxTimestamp
MaxSessions == 2       \* sessions started in a run without overlapping handlers
\* runs of SpecControl: each of the three numbers above
MaxControl == 1
\* runs of both
MaxRaceSessions == 1   \* sessions started in a run with overlapping handlers
MaxOverlaps == 1       \* handlers entered in a run while another one is suspended
\* runs of SpecPage
MaxEmitted == 3        \* a press or a timer is handled only while fewer actions were emitted
MaxTime == 1000        \* the page clock stops here (ms)
\* runs of SpecInput
MaxInputs == 3         \* input events dispatched in a run
MaxTyped == 2          \* a field's text is told by its length, 0..MaxTyped
MaxInputTime == 1500   \* the page clock stops here (ms)
\* runs of SpecSanitizer
MaxDigits == 20        \* field values include the runs of 0..MaxDigits digits
\* runs of SpecSelector
MaxText == 52          \* an element's text has 0..MaxText characters
\* runs of SpecValidator
MaxValidated == 2      \* a validated recording has 0..MaxValidated actions

\* SYNC_ACTION handlers that can be in flight at once
NumSyncHandlers == MaxOverlaps + 1

Tabs == {1}
TestNames == {"login"}
SyncIds == 1..NumSyncHandlers

DataBudget ==
    [actions |-> MaxActions, timestamps |-> MaxTimestamp, sessions |-> MaxSessions,
     overlaps |-> MaxOverlaps]
ControlBudget ==
    [actions |-> MaxControl, timestamps |-> MaxControl, sessions |-> MaxControl,
     overlaps |-> MaxOverlaps]
\* runs of SpecSerial: MaxActions actions with one timestamp in one session,
\* every handler finishing before the next one is entered
SerialBudget ==
    [actions |-> MaxActions, timestamps |-> MaxControl, sessions |-> MaxControl,
     overlaps |-> 0]

VARIABLES
    state,          \* the BackgroundState object
    sessionActions, \* chrome.storage.session['saveaction_current_actions']
    clock,          \* Date.now()
    startH, stopH, pauseH, resumeH, navH, syncH,  \* handler frames
    stopH2,         \* the frame of a second handleStopRecording in flight
    pollH,          \* the frame of the setInterval callback
    saveH,          \* the frame of handleSaveCurrentState
    resp,           \* what the last step passed to sendResponse (NoResponse if nothing)
    pageReply,      \* how the chrome.tabs.sendMessage awaited by the last step ended
    status,         \* the data of the GET_STATUS answer the last step gave (NoStatus if none)
    restarted,      \* the last step was a fresh start of the service worker
    broadcast,      \* the state named by the STATUS_UPDATE the last step sent ("none" if none)
    accepted,       \* history: actions given an id in the current session
    synced,         \* history: SYNC_ACTION requests accepted so far
    overlaps,       \* history: handlers entered while another one was suspended
    budget,         \* the bounds of the run, fixed from the start
    listener,       \* the EventListener object of the page's content script
    emitted,        \* the actions the EventListener has passed to its callback
    now,            \* Date.now() in the page, in ms
    timers,         \* the setTimeout callbacks of onClick that are pending
    pointer,        \* the pointer gesture the browser is delivering
    fields,         \* the value of each form field of the page
    burst,          \* the run of input events the user is typing (history)
    content,        \* the content script of a page: its recorder and indicator
    sanitizerCall,  \* the last call of a function of sanitizer.ts, with its result
    selectorCall    \* the last call of generateSelectors, with its result

vars == <<state, sessionActions, clock,
          startH, stopH, pauseH, resumeH, navH, syncH, pollH, saveH,
          resp, pageReply, status, restarted, broadcast,
          accepted, synced, overlaps, budget, stopH2,
          listener, emitted, now, timers, pointer, fields, burst, content,
          sanitizerCall, selectorCall>>

\* the variables of the page, and those of the service worker
pageVars == <<listener, emitted, now, timers, pointer, fields, burst, content>>
\* what the pointer handlers leave alone, and what the input handlers do
inputVars == <<fields, burst>>
\* the calls of the pure functions, which no handler makes
utilVars == <<sanitizerCall, selectorCall>>
pointerVars == <<timers, pointer>>
workerVars == <<state, sessionActions, clock,
                startH, stopH, pauseH, resumeH, navH, syncH, pollH, saveH,
                resp, pageReply, status, restarted, broadcast,
                accepted, synced, overlaps, budget, stopH2>>

\* ---- values -------------------------------------------------------------
NoAction == [id |-> <<>>, timestamp |-> 0]
NoRecording == [id |-> 0]

InitialState ==
    [isRecording |-> FALSE, isPaused |-> FALSE, testName |-> "",
     currentTabId |-> 0, startTime |-> 0,
     accumulatedActions |-> <<>>, actionCache |-> <<>>,
     pollingInterval |-> FALSE, actionCounter |-> 0]

\* resetState(): clears the timer and replaces the whole object
resetState == InitialState

IdleStart == [pc |-> "idle", tabId |-> 0]
\* entryQuiescent / entryAccepted / entryClock are history fields: whether
\* no other handler was suspended when stop was entered, how many actions the
\* session had accepted then, and the value of Date.now() then
IdleStop == [pc |-> "idle", tabId |-> 0, currentPageActions |-> <<>>,
             recording |-> NoRecording,
             entryQuiescent |-> FALSE, entryAccepted |-> 0, entryClock |-> 0]
IdlePause == [pc |-> "idle", tabId |-> 0]
IdleResume == [pc |-> "idle", tabId |-> 0]
IdleNav == [pc |-> "idle"]
IdleSync == [pc |-> "idle", action |-> NoAction, actions |-> <<>>]
IdlePoll == [pc |-> "idle"]
IdleSave == [pc |-> "idle", tabId |-> 0]

\* elements of the page, children of document.body unless said: a checkbox input
\* (interactive, no navigation), a link with an href (interactive,
\* navigation), a text paragraph (neither), and the recording indicator, a
\* div that holds the stop button; and an icon inside the link that the
\* classifier does not accept
Elements == {"checkbox", "link", "text", "indicator", "stopButton", "icon"}
NoElement == "null"
Body == "body"
\* element.parentElement
Parent ==
    [e \in Elements \cup {Body} |->
       CASE e = "stopButton" -> "indicator"
         [] e = "icon" -> "link"
         [] e = Body -> NoElement
         [] OTHER -> Body]
\* the fields of a new EventListener
NewListener ==
    [isListening |-> FALSE, lastClickTarget |-> NoElement, lastClickTime |-> 0,
     actionSequence |-> 0, inputDebounceTimer |-> 0,
     pendingInputElement |-> NoElement, typingStartTime |-> 0, keyCount |-> 0]
\* the content script has no answer to GET_STATUS; `delivered` is false when
\* chrome.runtime.lastError is set
NoAnswer == [delivered |-> FALSE, state |-> "none", testName |-> ""]
\* a new ActionRecorder and a new RecordingIndicator
NewRecorder == [phase |-> "idle", testName |-> ""]
NewIndicator == [shown |-> FALSE, testName |-> "", paused |-> FALSE]
\* no page has loaded a content script
NoContent ==
    [pc |-> "none", answer |-> NoAnswer,
     recorder |-> NewRecorder, indicator |-> NewIndicator]
\* no function was called yet
NoCall == [fn |-> "none"]
\* form fields of the page: a text input, a password input, and a select
\* (which dispatches input events too)
FormFields == {"username", "password", "country"}
\* no input event yet; `field` and `last` are the target and the time of the
\* burst's last event, `events` counts its events, `single` tells whether
\* they all had the same target, `heard` whether the listeners were attached
\* at each of them, `start` is the number of actions emitted before it
\* began and `total` counts the input events of the run
NoBurst ==
    [field |-> NoElement, last |-> 0, events |-> 0, single |-> TRUE,
     heard |-> TRUE, start |-> 0, total |-> 0]
\* no gesture in progress; `clicks` counts the clicks of the running series,
\* `target` and `lastTime` are those of its last click, `start` is the number
\* of actions emitted before the series began, `heard` tells whether the
\* listeners were attached at every event of the series, and `apart` is the
\* time between the last two clicks of the series (all three history)
NoGesture ==
    [pc |-> "idle", target |-> NoElement, clicks |-> 0, lastTime |-> 0,
     start |-> 0, heard |-> TRUE, apart |-> 0]

\* recordingState as handleGetStatus and broadcastStatusUpdate compute it
Phase(st) == IF st.isRecording THEN (IF st.isPaused THEN "paused" ELSE "recording")
             ELSE "idle"

Ok(op, data) == [op |-> op, success |-> TRUE, error |-> "", data |-> data]
Err(op, msg) == [op |-> op, success |-> FALSE, error |-> msg, data |-> NoRecording]
NoResponse == [op |-> "none", success |-> FALSE, error |-> "", data |-> NoRecording]

\* StatusResponse.data; metadata undefined is NoMetadata
NoMetadata == [testName |-> "", startTime |-> 0, actionCount |-> 0]
NoStatus == [state |-> "none", metadata |-> NoMetadata]

Quiescent ==
    /\ startH.pc = "idle" /\ stopH.pc = "idle" /\ pauseH.pc = "idle"
    /\ resumeH.pc = "idle" /\ navH.pc = "idle" /\ pollH.pc = "idle"
    /\ saveH.pc = "idle" /\ stopH2.pc = "idle"
    /\ \A i \in SyncIds : syncH[i].pc = "idle"

\* ---- pure helpers -------------------------------------------------------
\* Array.prototype.sort((a, b) => a.timestamp - b.timestamp): stable
InsertByTimestamp(s, a) ==
    LET after == {i \in 1..Len(s) : s[i].timestamp <= a.timestamp}
        k == IF after = {} THEN 0 ELSE CHOOSE i \in after : \A j \in after : j <= i
    IN SubSeq(s, 1, k) \o <<a>> \o SubSeq(s, k + 1, Len(s))

RECURSIVE SortByTimestamp(_)
SortByTimestamp(s) ==
    IF s = <<>> THEN <<>>
    ELSE InsertByTimestamp(SortByTimestamp(SubSeq(s, 1, Len(s) - 1)), s[Len(s)])

\* new Date(ms).toISOString(): a string, never falsy, distinct from the number
ToISOString(ms) == [iso |-> ms]

\* the timestamp de-duplication of the navigation merge
NewActions(accumulated, currentPageActions) ==
    LET existingTimestamps == {accumulated[i].timestamp : i \in 1..Len(accumulated)}
    IN SelectSeq(currentPageActions, LAMBDA a : a.timestamp \notin existingTimestamps)

\* `act_${String(n).padStart(3, '0')}`: the decimal digits of n, left-padded
\* with zeros to three places (longer numbers are not truncated)
RECURSIVE Digits(_)
Digits(n) == IF n < 10 THEN <<n>> ELSE Append(Digits(n \div 10), n % 10)

PadStart3(d) == IF Len(d) >= 3 THEN d ELSE [i \in 1..(3 - Len(d)) |-> 0] \o d

ActionId(n) == <<"act_">> \o PadStart3(Digits(n))

\* what SYNC_ACTION stores: the payload with its id replaced
Renumbered(payload, n) == [payload EXCEPT !.id = ActionId(n)]

\* URL strings the recording can carry and whether `new URL(u)` accepts them
PageUrl == "https://shop.test/cart"
TabUrls == {PageUrl, "", "unknown"}
ParsesAsURL(u) == u = PageUrl

\* the Recording the page's recorder hands back on STOP_RECORDING when it is
\* usable (id, testName and startTime all truthy)
PageRecording(name, started) ==
    [id |-> "rec_page", version |-> "1.0.0", testName |-> name, url |-> PageUrl,
     startTime |-> ToISOString(started), endTime |-> ToISOString(started),
     viewport |-> [width |-> 1280, height |-> 720], userAgent |-> "UA",
     actions |-> <<>>]

\* the Recording handleStopRecording builds from the background state
BackgroundRecording(st, endTime, url, currentPageActions) ==
    [id |-> "rec_bg", version |-> "1.0.0", testName |-> st.testName, url |-> url,
     startTime |-> ToISOString(st.startTime), endTime |-> ToISOString(endTime),
     viewport |-> [width |-> 1920, height |-> 1080], userAgent |-> "Mozilla/5.0",
     actions |-> SortByTimestamp(st.accumulatedActions \o currentPageActions)]

\* validateAction: the fields the stored actions carry here (id, timestamp);
\* their other fields come from the capture engine unchanged
validateAction(action) ==
    (IF action.id = <<>> THEN {"action.id"} ELSE {})
    \cup (IF action.timestamp < 0 THEN {"action.timestamp"} ELSE {})

\* validateRecording: the set of fields reported in `errors`
validateRecording(recording) ==
    (IF recording.id = "" THEN {"recording.id"} ELSE {})
    \cup (IF recording.version = "" THEN {"recording.version"} ELSE {})
    \cup (IF recording.testName = "" THEN {"recording.testName"} ELSE {})
    \cup (IF recording.url = "" \/ ~ParsesAsURL(recording.url)
          THEN {"recording.url"} ELSE {})
    \cup (IF recording.viewport.width <= 0 \/ recording.viewport.height <= 0
          THEN {"recording.viewport"} ELSE {})
    \cup (IF recording.userAgent = "" THEN {"recording.userAgent"} ELSE {})
    \cup UNION {validateAction(recording.actions[i]) : i \in 1..Len(recording.actions)}

isValid(recording) == validateRecording(recording) = {}

\* the service worker has loaded: `let state = {...}`, nothing stored
Loaded ==
    /\ state = InitialState
    /\ sessionActions = <<>>
    /\ clock = 0
    /\ startH = IdleStart
    /\ stopH = IdleStop
    /\ stopH2 = IdleStop
    /\ pauseH = IdlePause
    /\ resumeH = IdleResume
    /\ navH = IdleNav
    /\ syncH = [i \in SyncIds |-> IdleSync]
    /\ pollH = IdlePoll
    /\ saveH = IdleSave
    /\ status = NoStatus
    /\ restarted = FALSE
    /\ resp = NoResponse
    /\ pageReply = "none"
    /\ broadcast = "none"
    /\ accepted = <<>>
    /\ synced = 0
    /\ overlaps = 0
    /\ listener = NewListener
    /\ emitted = <<>>
    /\ now = 0
    /\ timers = {}
    /\ pointer = NoGesture
    /\ fields = [f \in FormFields |-> 0]
    /\ burst = NoBurst
    /\ content = NoContent
    /\ sanitizerCall = NoCall
    /\ selectorCall = NoCall

Init == Loaded /\ budget = DataBudget

InitControl == Loaded /\ budget = ControlBudget

InitSerial == Loaded /\ budget = SerialBudget

\* no SYNC_ACTION handler and no navigation handler is suspended
SyncSettled == navH.pc = "idle" /\ \A i \in SyncIds : syncH[i].pc = "idle"

\* sessions a run may start: fewer once handlers have overlapped
SessionBudget == IF overlaps > 0 THEN MaxRaceSessions ELSE budget.sessions

\* a handler or listener is entered: count it if another one is suspended
Enter ==
    IF Quiescent
    THEN UNCHANGED overlaps
    ELSE overlaps < budget.overlaps /\ overlaps' = overlaps + 1

\* ---- START_RECORDING ------------------------------------------------------
\* variant of StartRecording without the isRecording check
StartRecordingUnguarded ==
    /\ startH.pc = "idle"
    /\ Enter
    /\ startH' = [startH EXCEPT !.pc = "query"]
    /\ resp' = NoResponse
    /\ UNCHANGED <<budget, pageVars, utilVars, stopH2, pollH, saveH>>
    /\ status' = NoStatus
    /\ restarted' = FALSE
    /\ broadcast' = "none"
    /\ pageReply' = "none"
    /\ UNCHANGED <<state, sessionActions, clock,
                   stopH, pauseH, resumeH, navH, syncH, accepted, synced>>

\* entry up to `await chrome.tabs.query`
StartRecording ==
    /\ startH.pc = "idle"
    /\ Enter
    /\ IF state.isRecording
       THEN /\ resp' = Err("start", "Recording is already in progress")
            /\ UNCHANGED startH
       ELSE /\ clock < SessionBudget
            /\ startH' = [startH EXCEPT !.pc = "query"]
            /\ resp' = NoResponse
    /\ UNCHANGED <<budget, pageVars, utilVars, stopH2, pollH, saveH>>
    /\ status' = NoStatus
    /\ restarted' = FALSE
    /\ broadcast' = "none"
    /\ pageReply' = "none"
    /\ UNCHANGED <<state, sessionActions, clock,
                   stopH, pauseH, resumeH, navH, syncH, accepted, synced>>

\* tabs.query resolved: no tab, a tab without id, or the state update up to
\* `await sendMessage`
StartQueried ==
    /\ startH.pc = "query"
    /\ \E tabs \in {<<>>} \cup {<<t>> : t \in Tabs \cup {0}} :
         IF tabs = <<>>
         THEN /\ resp' = Err("start", "No active tab found")
              /\ startH' = IdleStart
              /\ UNCHANGED <<state, clock, accepted>>
         ELSE IF tabs[1] = 0
         THEN /\ resp' = Err("start", "Invalid tab ID")
              /\ startH' = IdleStart
              /\ UNCHANGED <<state, clock, accepted>>
         ELSE /\ clock' = clock + 1
              /\ state' = [state EXCEPT !.isRecording = TRUE,
                                        !.isPaused = FALSE,
                                        !.testName = CHOOSE n \in TestNames : TRUE,
                                        !.currentTabId = tabs[1],
                                        !.startTime = clock + 1]
              /\ startH' = [pc |-> "send", tabId |-> tabs[1]]
              /\ accepted' = <<>>
              /\ resp' = NoResponse
    /\ UNCHANGED <<budget, pageVars, utilVars, stopH2, pollH, saveH>>
    /\ status' = NoStatus
    /\ restarted' = FALSE
    /\ broadcast' = "none"
    /\ pageReply' = "none"
    /\ UNCHANGED <<sessionActions, stopH, pauseH, resumeH, navH,
                   syncH, overlaps, synced>>

\* variant of StartReplied whose catch does not call resetState
StartRepliedNoReset ==
    /\ startH.pc = "send"
    /\ \E delivered \in BOOLEAN :
         /\ pageReply' = IF delivered THEN "ok" ELSE "rejected"
         /\ IF delivered
            THEN /\ state' = [state EXCEPT !.pollingInterval = TRUE]
                 /\ resp' = Ok("start", NoRecording)
            ELSE /\ UNCHANGED state
                 /\ resp' = Err("start", "Failed to start recording")
    /\ startH' = IdleStart
    /\ broadcast' = IF pageReply' = "ok" THEN Phase(state') ELSE "none"
    /\ UNCHANGED <<budget, pageVars, utilVars, stopH2, pollH, saveH>>
    /\ status' = NoStatus
    /\ restarted' = FALSE
    /\ UNCHANGED <<sessionActions, clock, stopH, pauseH, resumeH,
                   navH, syncH, accepted, overlaps, synced>>

\* the page answered START_RECORDING, or the send was rejected
StartReplied ==
    /\ startH.pc = "send"
    /\ \E delivered \in BOOLEAN :
         /\ pageReply' = IF delivered THEN "ok" ELSE "rejected"
         /\ IF delivered
            THEN /\ state' = [state EXCEPT !.pollingInterval = TRUE]
                 /\ resp' = Ok("start", NoRecording)
            ELSE /\ state' = resetState
                 /\ resp' = Err("start", "Failed to start recording")
    /\ startH' = IdleStart
    /\ broadcast' = IF pageReply' = "ok" THEN Phase(state') ELSE "none"
    /\ UNCHANGED <<budget, pageVars, utilVars, stopH2, pollH, saveH>>
    /\ status' = NoStatus
    /\ restarted' = FALSE
    /\ UNCHANGED <<sessionActions, clock, stopH, pauseH, resumeH,
                   navH, syncH, accepted, overlaps, synced>>

\* ---- PAUSE_RECORDING / RESUME_RECORDING ---------------------------------
\* variant of PauseRecording without the isPaused check
PauseRecordingWhilePaused ==
    /\ pauseH.pc = "idle"
    /\ Enter
    /\ IF ~state.isRecording
       THEN resp' = Err("pause", "No active recording to pause") /\ UNCHANGED pauseH
       ELSE IF state.currentTabId = 0
       THEN resp' = Err("pause", "No active tab for recording") /\ UNCHANGED pauseH
       ELSE /\ pauseH' = [pc |-> "send", tabId |-> state.currentTabId]
            /\ resp' = NoResponse
    /\ UNCHANGED <<budget, pageVars, utilVars, stopH2, pollH, saveH>>
    /\ status' = NoStatus
    /\ restarted' = FALSE
    /\ broadcast' = "none"
    /\ pageReply' = "none"
    /\ UNCHANGED <<state, sessionActions, clock, startH, stopH,
                   resumeH, navH, syncH, accepted, synced>>

PauseRecording ==
    /\ pauseH.pc = "idle"
    /\ Enter
    /\ IF ~state.isRecording
       THEN resp' = Err("pause", "No active recording to pause") /\ UNCHANGED pauseH
       ELSE IF state.isPaused
       THEN resp' = Err("pause", "Recording is already paused") /\ UNCHANGED pauseH
       ELSE IF state.currentTabId = 0
       THEN resp' = Err("pause", "No active tab for recording") /\ UNCHANGED pauseH
       ELSE /\ pauseH' = [pc |-> "send", tabId |-> state.currentTabId]
            /\ resp' = NoResponse
    /\ UNCHANGED <<budget, pageVars, utilVars, stopH2, pollH, saveH>>
    /\ status' = NoStatus
    /\ restarted' = FALSE
    /\ broadcast' = "none"
    /\ pageReply' = "none"
    /\ UNCHANGED <<state, sessionActions, clock, startH, stopH,
                   resumeH, navH, syncH, accepted, synced>>

\* variant of PauseReplied that sets isPaused whatever became of the send
PauseRepliedFlagAlways ==
    /\ pauseH.pc = "send"
    /\ \E delivered \in BOOLEAN :
         /\ pageReply' = IF delivered THEN "ok" ELSE "rejected"
         /\ state' = [state EXCEPT !.isPaused = TRUE]
         /\ resp' = IF delivered THEN Ok("pause", NoRecording)
                    ELSE Err("pause", "Failed to pause recording")
    /\ pauseH' = IdlePause
    /\ broadcast' = IF pageReply' = "ok" THEN Phase(state') ELSE "none"
    /\ UNCHANGED <<budget, pageVars, utilVars, stopH2, pollH, saveH>>
    /\ status' = NoStatus
    /\ restarted' = FALSE
    /\ UNCHANGED <<sessionActions, clock, startH, stopH, resumeH,
                   navH, syncH, accepted, overlaps, synced>>

\* the page answered PAUSE_RECORDING, or the send was rejected
PauseReplied ==
    /\ pauseH.pc = "send"
    /\ \E delivered \in BOOLEAN :
         /\ pageReply' = IF delivered THEN "ok" ELSE "rejected"
         /\ IF delivered
            THEN /\ state' = [state EXCEPT !.isPaused = TRUE]
                 /\ resp' = Ok("pause", NoRecording)
            ELSE /\ resp' = Err("pause", "Failed to pause recording")
                 /\ UNCHANGED state
    /\ pauseH' = IdlePause
    /\ broadcast' = IF pageReply' = "ok" THEN Phase(state') ELSE "none"
    /\ UNCHANGED <<budget, pageVars, utilVars, stopH2, pollH, saveH>>
    /\ status' = NoStatus
    /\ restarted' = FALSE
    /\ UNCHANGED <<sessionActions, clock, startH, stopH, resumeH,
                   navH, syncH, accepted, overlaps, synced>>

ResumeRecording ==
    /\ resumeH.pc = "idle"
    /\ Enter
    /\ IF ~state.isRecording
       THEN resp' = Err("resume", "No active recording to resume") /\ UNCHANGED resumeH
       ELSE IF ~state.isPaused
       THEN resp' = Err("resume", "Recording is not paused") /\ UNCHANGED resumeH
       ELSE IF state.currentTabId = 0
       THEN resp' = Err("resume", "No active tab for recording") /\ UNCHANGED resumeH
       ELSE /\ resumeH' = [pc |-> "send", tabId |-> state.currentTabId]
            /\ resp' = NoResponse
    /\ UNCHANGED <<budget, pageVars, utilVars, stopH2, pollH, saveH>>
    /\ status' = NoStatus
    /\ restarted' = FALSE
    /\ broadcast' = "none"
    /\ pageReply' = "none"
    /\ UNCHANGED <<state, sessionActions, clock, startH, stopH,
                   pauseH, navH, syncH, accepted, synced>>

ResumeReplied ==
    /\ resumeH.pc = "send"
    /\ \E delivered \in BOOLEAN :
         /\ pageReply' = IF delivered THEN "ok" ELSE "rejected"
         /\ IF delivered
            THEN /\ state' = [state EXCEPT !.isPaused = FALSE]
                 /\ resp' = Ok("resume", NoRecording)
            ELSE /\ resp' = Err("resume", "Failed to resume recording")
                 /\ UNCHANGED state
    /\ resumeH' = IdleResume
    /\ broadcast' = IF pageReply' = "ok" THEN Phase(state') ELSE "none"
    /\ UNCHANGED <<budget, pageVars, utilVars, stopH2, pollH, saveH>>
    /\ status' = NoStatus
    /\ restarted' = FALSE
    /\ UNCHANGED <<sessionActions, clock, startH, stopH, pauseH,
                   navH, syncH, accepted, overlaps, synced>>

\* ---- STOP_RECORDING -----------------------------------------------------
\* entry up to `await chrome.storage.session.get`
StopRecording ==
    /\ stopH.pc = "idle"
    /\ Enter
    /\ IF ~state.isRecording
       THEN /\ resp' = Err("stop", "No active recording")
            /\ UNCHANGED <<state, stopH>>
       ELSE IF state.currentTabId = 0
       THEN /\ state' = resetState
            /\ resp' = Err("stop", "No active tab for recording")
            /\ UNCHANGED stopH
       ELSE /\ state' = [state EXCEPT !.pollingInterval = FALSE]
            /\ stopH' = [stopH EXCEPT
                   !.pc = "read", !.tabId = state.currentTabId,
                   !.entryQuiescent = Quiescent,
                   !.entryAccepted = Len(accepted),
                   !.entryClock = clock]
            /\ resp' = NoResponse
    /\ UNCHANGED <<budget, pageVars, utilVars, stopH2, pollH, saveH>>
    /\ status' = NoStatus
    /\ restarted' = FALSE
    /\ broadcast' = "none"
    /\ pageReply' = "none"
    /\ UNCHANGED <<sessionActions, clock, startH, pauseH, resumeH,
                   navH, syncH, accepted, synced>>

\* variant of StopRead that takes the page's actions from the poll's mirror
StopReadFromCache ==
    /\ stopH.pc = "read"
    /\ stopH' = [stopH EXCEPT !.pc = "send", !.currentPageActions = state.actionCache]
    /\ resp' = NoResponse
    /\ UNCHANGED <<budget, pageVars, utilVars, stopH2, pollH, saveH>>
    /\ status' = NoStatus
    /\ restarted' = FALSE
    /\ broadcast' = "none"
    /\ pageReply' = "none"
    /\ UNCHANGED <<state, sessionActions, clock, startH, pauseH,
                   resumeH, navH, syncH, accepted, overlaps, synced>>

\* storage answered: currentPageActions is set, STOP_RECORDING goes to the page
StopRead ==
    /\ stopH.pc = "read"
    /\ stopH' = [stopH EXCEPT !.pc = "send", !.currentPageActions = sessionActions]
    /\ resp' = NoResponse
    /\ UNCHANGED <<budget, pageVars, utilVars, stopH2, pollH, saveH>>
    /\ status' = NoStatus
    /\ restarted' = FALSE
    /\ broadcast' = "none"
    /\ pageReply' = "none"
    /\ UNCHANGED <<state, sessionActions, clock, startH, pauseH,
                   resumeH, navH, syncH, accepted, overlaps, synced>>

\* variant of StopReplied without the fallback: a rejected send fails the stop
StopRepliedNoFallback ==
    /\ stopH.pc = "send"
    /\ \E reply \in {"ok", "unusable", "rejected"} :
         /\ pageReply' = reply
         /\ IF reply = "ok"
            THEN LET page == PageRecording(CHOOSE n \in TestNames : TRUE, 1)
                     cur == stopH.currentPageActions
                     acc == state.accumulatedActions
                 IN /\ stopH' = [stopH EXCEPT
                          !.pc = "save",
                          !.recording = [page EXCEPT !.actions =
                              IF Len(acc) > 0 THEN SortByTimestamp(acc \o cur) ELSE cur]]
                    /\ resp' = NoResponse /\ UNCHANGED state
            ELSE IF reply = "rejected" \/ state.testName = "" \/ state.startTime = 0
            THEN /\ state' = resetState
                 /\ resp' = Err("stop", "Failed to stop recording: Missing recording metadata")
                 /\ stopH' = IdleStop
            ELSE /\ stopH' = [stopH EXCEPT !.pc = "tabget"]
                 /\ resp' = NoResponse /\ UNCHANGED state
    /\ UNCHANGED <<budget, pageVars, utilVars, stopH2, pollH, saveH>>
    /\ status' = NoStatus
    /\ restarted' = FALSE
    /\ broadcast' = "none"
    /\ UNCHANGED <<sessionActions, clock, startH, pauseH, resumeH,
                   navH, syncH, accepted, overlaps, synced>>

\* the page answered with a usable recording ("ok"), with something else
\* ("unusable"), or the send was rejected ("rejected")
StopReplied ==
    /\ stopH.pc = "send"
    /\ \E reply \in {"ok", "unusable", "rejected"} :
         /\ pageReply' = reply
         /\ IF reply = "ok"
            THEN LET page == PageRecording(CHOOSE n \in TestNames : TRUE, 1)
                     cur == stopH.currentPageActions
                     acc == state.accumulatedActions
                 IN /\ stopH' = [stopH EXCEPT
                          !.pc = "save",
                          !.recording = [page EXCEPT !.actions =
                              IF Len(acc) > 0 THEN SortByTimestamp(acc \o cur) ELSE cur]]
                    /\ resp' = NoResponse /\ UNCHANGED state
            ELSE IF state.testName = "" \/ state.startTime = 0
            THEN /\ state' = resetState
                 /\ resp' = Err("stop", "Failed to stop recording: Missing recording metadata")
                 /\ stopH' = IdleStop
            ELSE /\ stopH' = [stopH EXCEPT !.pc = "tabget"]
                 /\ resp' = NoResponse /\ UNCHANGED state
    /\ UNCHANGED <<budget, pageVars, utilVars, stopH2, pollH, saveH>>
    /\ status' = NoStatus
    /\ restarted' = FALSE
    /\ broadcast' = "none"
    /\ UNCHANGED <<sessionActions, clock, startH, pauseH, resumeH,
                   navH, syncH, accepted, overlaps, synced>>

\* chrome.tabs.get resolved or rejected: the recording is built from the state
StopTabGot ==
    /\ stopH.pc = "tabget"
    /\ \E url \in TabUrls :
         stopH' = [stopH EXCEPT
             !.pc = "save",
             !.recording = BackgroundRecording(state, clock, url,
                                               stopH.currentPageActions)]
    /\ resp' = NoResponse
    /\ UNCHANGED <<budget, pageVars, utilVars, stopH2, pollH, saveH>>
    /\ status' = NoStatus
    /\ restarted' = FALSE
    /\ broadcast' = "none"
    /\ pageReply' = "none"
    /\ UNCHANGED <<state, sessionActions, clock, startH, pauseH,
                   resumeH, navH, syncH, accepted, overlaps, synced>>

\* saveRecording settled (a failure is only logged; chrome.storage.local is
\* never read back by the coordinator): reset and answer
StopSaved ==
    /\ stopH.pc = "save"
    /\ state' = resetState
    /\ resp' = Ok("stop", stopH.recording)
    /\ stopH' = IdleStop
    /\ UNCHANGED <<budget, pageVars, utilVars, stopH2, pollH, saveH>>
    /\ status' = NoStatus
    /\ restarted' = FALSE
    /\ broadcast' = Phase(state')
    /\ pageReply' = "none"
    /\ UNCHANGED <<sessionActions, clock, startH, pauseH, resumeH, navH, syncH,
                   accepted, overlaps, synced>>

\* ---- SYNC_ACTION --------------------------------------------------------
FreeSyncHandler(i) ==
    /\ syncH[i].pc = "idle"
    /\ \A j \in SyncIds : j < i => syncH[j].pc # "idle"

\* entry up to `await chrome.storage.session.get`
SyncAction(i) ==
    /\ FreeSyncHandler(i)
    /\ Enter
    /\ \E payload \in {NoAction} \cup {[id |-> <<>>, timestamp |-> t] : t \in 1..budget.timestamps} :
         IF ~state.isRecording \/ payload = NoAction
         THEN /\ resp' = Ok("sync", NoRecording)
              /\ UNCHANGED <<state, syncH, accepted, synced>>
         ELSE /\ synced < budget.actions
              /\ synced' = synced + 1
              /\ state' = [state EXCEPT !.actionCounter = @ + 1]
              /\ syncH' = [syncH EXCEPT ![i] =
                     [pc |-> "read",
                      action |-> Renumbered(payload, state.actionCounter + 1),
                      actions |-> <<>>]]
              /\ accepted' = Append(accepted, Renumbered(payload, state.actionCounter + 1))
              /\ resp' = NoResponse
    /\ UNCHANGED <<budget, pageVars, utilVars, stopH2, pollH, saveH>>
    /\ status' = NoStatus
    /\ restarted' = FALSE
    /\ broadcast' = "none"
    /\ pageReply' = "none"
    /\ UNCHANGED <<sessionActions, clock, startH, stopH, pauseH,
                   resumeH, navH>>

\* storage answered the get: the action is pushed onto the array read
SyncRead(i) ==
    /\ syncH[i].pc = "read"
    /\ syncH' = [syncH EXCEPT ![i].pc = "write",
                              ![i].actions = Append(sessionActions, syncH[i].action)]
    /\ resp' = NoResponse
    /\ UNCHANGED <<budget, pageVars, utilVars, stopH2, pollH, saveH>>
    /\ status' = NoStatus
    /\ restarted' = FALSE
    /\ broadcast' = "none"
    /\ pageReply' = "none"
    /\ UNCHANGED <<state, sessionActions, clock, startH, stopH,
                   pauseH, resumeH, navH, accepted, overlaps, synced>>

\* storage applied the set: the handler answers
SyncWritten(i) ==
    /\ syncH[i].pc = "write"
    /\ sessionActions' = syncH[i].actions
    /\ syncH' = [syncH EXCEPT ![i] = IdleSync]
    /\ resp' = Ok("sync", NoRecording)
    /\ UNCHANGED <<budget, pageVars, utilVars, stopH2, pollH, saveH>>
    /\ status' = NoStatus
    /\ restarted' = FALSE
    /\ broadcast' = "none"
    /\ pageReply' = "none"
    /\ UNCHANGED <<state, clock, startH, stopH, pauseH, resumeH,
                   navH, accepted, overlaps, synced>>

\* ---- tab listeners ------------------------------------------------------
\* chrome.tabs.onUpdated with status 'loading' and a url, for the recording
\* tab: entry up to `await chrome.storage.session.get`
TabUpdated(tabId) ==
    /\ navH.pc = "idle"
    /\ state.currentTabId = tabId /\ state.isRecording
    /\ Enter
    /\ navH' = [pc |-> "read"]
    /\ resp' = NoResponse
    /\ UNCHANGED <<budget, pageVars, utilVars, stopH2, pollH, saveH>>
    /\ status' = NoStatus
    /\ restarted' = FALSE
    /\ broadcast' = "none"
    /\ pageReply' = "none"
    /\ UNCHANGED <<state, sessionActions, clock, startH, stopH,
                   pauseH, resumeH, syncH, accepted, synced>>

\* variant of NavMerged that appends the whole stored array
NavMergedNoDedup ==
    /\ navH.pc = "read"
    /\ state' = [state EXCEPT
           !.accumulatedActions = @ \o sessionActions,
           !.actionCache = <<>>]
    /\ navH' = [pc |-> "remove"]
    /\ resp' = NoResponse
    /\ UNCHANGED <<budget, pageVars, utilVars, stopH2, pollH, saveH>>
    /\ status' = NoStatus
    /\ restarted' = FALSE
    /\ broadcast' = "none"
    /\ pageReply' = "none"
    /\ UNCHANGED <<sessionActions, clock, startH, stopH, pauseH,
                   resumeH, syncH, accepted, overlaps, synced>>

\* storage answered: merge into accumulatedActions, clear the mirror, issue
\* the remove
NavMerged ==
    /\ navH.pc = "read"
    /\ state' = [state EXCEPT
           !.accumulatedActions = @ \o NewActions(@, sessionActions),
           !.actionCache = <<>>]
    /\ navH' = [pc |-> "remove"]
    /\ resp' = NoResponse
    /\ UNCHANGED <<budget, pageVars, utilVars, stopH2, pollH, saveH>>
    /\ status' = NoStatus
    /\ restarted' = FALSE
    /\ broadcast' = "none"
    /\ pageReply' = "none"
    /\ UNCHANGED <<sessionActions, clock, startH, stopH, pauseH,
                   resumeH, syncH, accepted, overlaps, synced>>

\* storage applied the remove
NavRemoved ==
    /\ navH.pc = "remove"
    /\ sessionActions' = <<>>
    /\ navH' = IdleNav
    /\ resp' = NoResponse
    /\ UNCHANGED <<budget, pageVars, utilVars, stopH2, pollH, saveH>>
    /\ status' = NoStatus
    /\ restarted' = FALSE
    /\ broadcast' = "none"
    /\ pageReply' = "none"
    /\ UNCHANGED <<state, clock, startH, stopH, pauseH, resumeH,
                   syncH, accepted, overlaps, synced>>

\* variant of TabRemoved that also removes the stored per-page array
TabRemovedClearsCache(tabId) ==
    /\ state.currentTabId = tabId /\ state.isRecording
    /\ Enter
    /\ state' = resetState
    /\ sessionActions' = <<>>
    /\ resp' = NoResponse
    /\ UNCHANGED <<budget, pageVars, utilVars, stopH2, pollH, saveH>>
    /\ status' = NoStatus
    /\ restarted' = FALSE
    /\ broadcast' = Phase(state')
    /\ pageReply' = "none"
    /\ UNCHANGED <<clock, startH, stopH, pauseH,
                   resumeH, navH, syncH, accepted, synced>>

\* chrome.tabs.onRemoved for the recording tab
TabRemoved(tabId) ==
    /\ state.currentTabId = tabId /\ state.isRecording
    /\ Enter
    /\ state' = resetState
    /\ resp' = NoResponse
    /\ UNCHANGED <<budget, pageVars, utilVars, stopH2, pollH, saveH>>
    /\ status' = NoStatus
    /\ restarted' = FALSE
    /\ broadcast' = Phase(state')
    /\ pageReply' = "none"
    /\ UNCHANGED <<sessionActions, clock, startH, stopH, pauseH,
                   resumeH, navH, syncH, accepted, synced>>

\* ---- the poll timer and GET_STATUS --------------------------------------
\* the setInterval callback fires: guard, up to `await chrome.storage.session.get`
PollTick ==
    /\ pollH.pc = "idle"
    /\ state.pollingInterval
    /\ Enter
    /\ pollH' = IF ~state.isRecording \/ state.currentTabId = 0
                THEN pollH ELSE [pc |-> "read"]
    /\ resp' = NoResponse
    /\ status' = NoStatus
    /\ restarted' = FALSE
    /\ broadcast' = "none"
    /\ pageReply' = "none"
    /\ UNCHANGED <<state, sessionActions, clock, startH, stopH, pauseH, resumeH,
                   navH, syncH, accepted, synced, budget, saveH, pageVars, utilVars, stopH2>>

\* storage answered the poll: the mirror is replaced if an array is stored
PollRead ==
    /\ pollH.pc = "read"
    /\ state' = IF sessionActions # <<>>
                THEN [state EXCEPT !.actionCache = sessionActions]
                ELSE state
    /\ pollH' = IdlePoll
    /\ resp' = NoResponse
    /\ status' = NoStatus
    /\ restarted' = FALSE
    /\ broadcast' = "none"
    /\ pageReply' = "none"
    /\ UNCHANGED <<sessionActions, clock, startH, stopH, pauseH, resumeH,
                   navH, syncH, accepted, synced, overlaps, budget, saveH, pageVars, utilVars, stopH2>>

\* handleGetStatus(): synchronous, answered in the listener itself
handleGetStatus ==
    LET totalActions == Len(state.accumulatedActions) + Len(state.actionCache)
    IN [state |-> Phase(state),
        metadata |-> IF state.isRecording /\ state.testName # "" /\ state.startTime # 0
                     THEN [testName |-> state.testName,
                           startTime |-> state.startTime,
                           actionCount |-> totalActions]
                     ELSE NoMetadata]

GetStatus ==
    /\ Enter
    /\ resp' = Ok("status", NoRecording)
    /\ status' = handleGetStatus
    /\ restarted' = FALSE
    /\ broadcast' = "none"
    /\ pageReply' = "none"
    /\ UNCHANGED <<state, sessionActions, clock, startH, stopH, pauseH, resumeH,
                   navH, syncH, pollH, accepted, synced, budget, saveH, pageVars, utilVars, stopH2>>

\* ---- SAVE_CURRENT_STATE --------------------------------------------------
\* what recorder.getActions() of the page can hold: nothing (no recorder, or
\* one that is not recording), or the actions the page has sent in this
\* session since it was loaded, under the ids the page gave them; these are
\* the stored actions that the session accepted
PageActions ==
    LET sent == SelectSeq(sessionActions,
                          LAMBDA a : \E i \in 1..Len(accepted) : accepted[i] = a)
    IN {<<>>, [i \in 1..Len(sent) |-> [id |-> <<>>, timestamp |-> sent[i].timestamp]]}

\* entry up to `await chrome.tabs.sendMessage`
SaveCurrentState ==
    /\ saveH.pc = "idle"
    /\ Enter
    /\ IF ~state.isRecording \/ state.currentTabId = 0
       THEN /\ resp' = Ok("save", NoRecording)
            /\ UNCHANGED saveH
       ELSE /\ saveH' = [pc |-> "send", tabId |-> state.currentTabId]
            /\ resp' = NoResponse
    /\ status' = NoStatus
    /\ restarted' = FALSE
    /\ broadcast' = "none"
    /\ pageReply' = "none"
    /\ UNCHANGED <<state, sessionActions, clock, startH, stopH, pauseH, resumeH,
                   navH, syncH, pollH, accepted, synced, budget, pageVars, utilVars, stopH2>>

\* variant of SaveReplied that lets a rejected send end the handler unanswered
SaveRepliedUnanswered ==
    /\ saveH.pc = "send"
    /\ \E reply \in {"ok", "unusable", "rejected"} :
         /\ pageReply' = reply
         /\ IF reply = "ok"
            THEN \E newActions \in PageActions :
                   /\ Len(state.accumulatedActions) + Len(newActions) <= budget.actions
                   /\ state' = [state EXCEPT !.accumulatedActions = @ \o newActions]
            ELSE UNCHANGED state
    /\ saveH' = IdleSave
    /\ resp' = IF pageReply' = "rejected" THEN NoResponse ELSE Ok("save", NoRecording)
    /\ status' = NoStatus
    /\ restarted' = FALSE
    /\ broadcast' = "none"
    /\ UNCHANGED <<sessionActions, clock, startH, stopH, pauseH, resumeH,
                   navH, syncH, pollH, accepted, synced, overlaps, budget, pageVars, utilVars, stopH2>>

\* the page answered with its actions ("ok"), with something else
\* ("unusable"), or the send was rejected ("rejected"): success in every case
SaveReplied ==
    /\ saveH.pc = "send"
    /\ \E reply \in {"ok", "unusable", "rejected"} :
         /\ pageReply' = reply
         /\ IF reply = "ok"
            THEN \E newActions \in PageActions :
                   /\ Len(state.accumulatedActions) + Len(newActions) <= budget.actions
                   /\ state' = [state EXCEPT !.accumulatedActions = @ \o newActions]
            ELSE UNCHANGED state
    /\ saveH' = IdleSave
    /\ resp' = Ok("save", NoRecording)
    /\ status' = NoStatus
    /\ restarted' = FALSE
    /\ broadcast' = "none"
    /\ UNCHANGED <<sessionActions, clock, startH, stopH, pauseH, resumeH,
                   navH, syncH, pollH, accepted, synced, overlaps, budget, pageVars, utilVars, stopH2>>

\* ---- the service worker is terminated and started again -----------------
\* the module is evaluated anew: `let state` is the initial object, no handler
\* and no timer of the old worker runs on; chrome.storage.session keeps its
\* contents. The browser terminates a worker that has no event in progress.
WorkerRestarted ==
    /\ Quiescent
    /\ state' = InitialState
    /\ restarted' = TRUE
    /\ resp' = NoResponse
    /\ status' = NoStatus
    /\ broadcast' = "none"
    /\ pageReply' = "none"
    /\ UNCHANGED <<sessionActions, clock, startH, stopH, pauseH, resumeH,
                   navH, syncH, pollH, accepted, synced, overlaps, budget, saveH, pageVars, utilVars, stopH2>>

Next ==
    \/ StartRecording \/ StartQueried \/ StartReplied
    \/ StopRecording \/ StopRead \/ StopReplied \/ StopTabGot \/ StopSaved
    \/ PauseRecording \/ PauseReplied
    \/ ResumeRecording \/ ResumeReplied
    \/ \E i \in SyncIds : SyncAction(i) \/ SyncRead(i) \/ SyncWritten(i)
    \/ \E t \in Tabs : TabUpdated(t) \/ TabRemoved(t)
    \/ NavMerged \/ NavRemoved
    \/ PollTick \/ PollRead \/ GetStatus
    \/ SaveCurrentState \/ SaveReplied
    \/ WorkerRestarted

Spec == Init /\ [][Next]_vars

SpecControl == InitControl /\ [][Next]_vars

SpecSerial == InitSerial /\ [][Next]_vars

\* every call a suspended handler awaits (chrome.tabs.query, tabs.sendMessage,
\* tabs.get, storage.session.get/set/remove, saveRecording) eventually
\* resolves or rejects, which resumes the handler
Fairness ==
    /\ WF_vars(StartQueried \/ StartReplied)
    /\ WF_vars(StopRead \/ StopReplied \/ StopTabGot \/ StopSaved)
    /\ WF_vars(PauseReplied)
    /\ WF_vars(ResumeReplied)
    /\ \A i \in SyncIds : WF_vars(SyncRead(i) \/ SyncWritten(i))
    /\ WF_vars(SaveReplied)
    /\ WF_vars(NavMerged \/ NavRemoved)
    /\ WF_vars(PollRead)

SpecLive == InitControl /\ [][Next]_vars /\ Fairness

\* ---- two STOP_RECORDING requests in flight --------------------------------
\* The popup and the indicator of the page can each send STOP_RECORDING; the
\* onMessage listener starts one handleStopRecording per message. stopH2 is
\* the frame of the second one; its steps are those of the first.
\* a second STOP_RECORDING request: entry up to `await chrome.storage.session.get`
StopRecording2 ==
    /\ stopH2.pc = "idle"
    /\ Enter
    /\ IF ~state.isRecording
       THEN /\ resp' = Err("stop", "No active recording")
            /\ UNCHANGED <<state, stopH2>>
       ELSE IF state.currentTabId = 0
       THEN /\ state' = resetState
            /\ resp' = Err("stop", "No active tab for recording")
            /\ UNCHANGED stopH2
       ELSE /\ state' = [state EXCEPT !.pollingInterval = FALSE]
            /\ stopH2' = [stopH2 EXCEPT
                   !.pc = "read", !.tabId = state.currentTabId,
                   !.entryQuiescent = Quiescent,
                   !.entryAccepted = Len(accepted),
                   !.entryClock = clock]
            /\ resp' = NoResponse
    /\ UNCHANGED <<budget, pageVars, utilVars, stopH, pollH, saveH>>
    /\ status' = NoStatus
    /\ restarted' = FALSE
    /\ broadcast' = "none"
    /\ pageReply' = "none"
    /\ UNCHANGED <<sessionActions, clock, startH, pauseH, resumeH,
                   navH, syncH, accepted, synced>>

\* the second stop: storage answered
StopRead2 ==
    /\ stopH2.pc = "read"
    /\ stopH2' = [stopH2 EXCEPT !.pc = "send", !.currentPageActions = sessionActions]
    /\ resp' = NoResponse
    /\ UNCHANGED <<budget, pageVars, utilVars, stopH, pollH, saveH>>
    /\ status' = NoStatus
    /\ restarted' = FALSE
    /\ broadcast' = "none"
    /\ pageReply' = "none"
    /\ UNCHANGED <<state, sessionActions, clock, startH, pauseH,
                   resumeH, navH, syncH, accepted, overlaps, synced>>

\* the second stop: the page answered STOP_RECORDING, or the send was rejected
StopReplied2 ==
    /\ stopH2.pc = "send"
    /\ \E reply \in {"ok", "unusable", "rejected"} :
         /\ pageReply' = reply
         /\ IF reply = "ok"
            THEN LET page == PageRecording(CHOOSE n \in TestNames : TRUE, 1)
                     cur == stopH2.currentPageActions
                     acc == state.accumulatedActions
                 IN /\ stopH2' = [stopH2 EXCEPT
                          !.pc = "save",
                          !.recording = [page EXCEPT !.actions =
                              IF Len(acc) > 0 THEN SortByTimestamp(acc \o cur) ELSE cur]]
                    /\ resp' = NoResponse /\ UNCHANGED state
            ELSE IF state.testName = "" \/ state.startTime = 0
            THEN /\ state' = resetState
                 /\ resp' = Err("stop", "Failed to stop recording: Missing recording metadata")
                 /\ stopH2' = IdleStop
            ELSE /\ stopH2' = [stopH2 EXCEPT !.pc = "tabget"]
                 /\ resp' = NoResponse /\ UNCHANGED state
    /\ UNCHANGED <<budget, pageVars, utilVars, stopH, pollH, saveH>>
    /\ status' = NoStatus
    /\ restarted' = FALSE
    /\ broadcast' = "none"
    /\ UNCHANGED <<sessionActions, clock, startH, pauseH, resumeH,
                   navH, syncH, accepted, overlaps, synced>>

\* the second stop: chrome.tabs.get settled, the recording is built from the state
StopTabGot2 ==
    /\ stopH2.pc = "tabget"
    /\ \E url \in TabUrls :
         stopH2' = [stopH2 EXCEPT
             !.pc = "save",
             !.recording = BackgroundRecording(state, clock, url,
                                               stopH2.currentPageActions)]
    /\ resp' = NoResponse
    /\ UNCHANGED <<budget, pageVars, utilVars, stopH, pollH, saveH>>
    /\ status' = NoStatus
    /\ restarted' = FALSE
    /\ broadcast' = "none"
    /\ pageReply' = "none"
    /\ UNCHANGED <<state, sessionActions, clock, startH, pauseH,
                   resumeH, navH, syncH, accepted, overlaps, synced>>

\* the second stop: saveRecording settled: reset and answer
StopSaved2 ==
    /\ stopH2.pc = "save"
    /\ state' = resetState
    /\ resp' = Ok("stop", stopH2.recording)
    /\ stopH2' = IdleStop
    /\ UNCHANGED <<budget, pageVars, utilVars, stopH, pollH, saveH>>
    /\ status' = NoStatus
    /\ restarted' = FALSE
    /\ broadcast' = Phase(state')
    /\ pageReply' = "none"
    /\ UNCHANGED <<sessionActions, clock, startH, pauseH, resumeH, navH, syncH,
                   accepted, overlaps, synced>>

NextStops ==
    \/ Next
    \/ StopRecording2 \/ StopRead2 \/ StopReplied2 \/ StopTabGot2 \/ StopSaved2

\* the service worker with two stop handlers
SpecStops == InitControl /\ [][NextStops]_vars

\* ---- the content script restores the session on a new page ---------------
\* ActionRecorder.startRecording on a recorder that is idle
startRecording(recorder, testName) ==
    [recorder EXCEPT !.phase = "recording", !.testName = testName]

\* ActionRecorder.pauseRecording
pauseRecording(recorder) ==
    IF recorder.phase = "recording" THEN [recorder EXCEPT !.phase = "paused"]
    ELSE recorder

\* RecordingIndicator.show
show(indicator, testName) ==
    IF indicator.shown THEN indicator
    ELSE [shown |-> TRUE, testName |-> testName, paused |-> FALSE]

\* RecordingIndicator.setPaused
setPaused(indicator, paused) ==
    IF ~indicator.shown THEN indicator
    ELSE [indicator EXCEPT !.paused = paused]

\* a page is loaded in the tab: its content script makes a recorder and an
\* indicator and sends GET_STATUS
ContentLoaded ==
    /\ content.pc \in {"none", "done"}
    /\ content' = [NoContent EXCEPT !.pc = "asked"]
    /\ UNCHANGED workerVars
    /\ UNCHANGED <<listener, emitted, now, timers, pointer, fields, burst>>
    /\ UNCHANGED utilVars

\* the query is settled: the coordinator answered it with handleGetStatus
\* (of a session with or without a testName), or the message failed and
\* chrome.runtime.lastError is set
ContentAnswered ==
    /\ content.pc = "asked"
    /\ \/ /\ Enter
          /\ resp' = Ok("status", NoRecording)
          /\ status' = handleGetStatus
          /\ restarted' = FALSE
          /\ broadcast' = "none"
          /\ pageReply' = "none"
          /\ \E metadata \in {handleGetStatus.metadata, NoMetadata} :
                content' = [content EXCEPT
                    !.pc = "answered",
                    !.answer = [delivered |-> TRUE, state |-> handleGetStatus.state,
                                testName |-> metadata.testName]]
       \/ /\ content' = [content EXCEPT !.pc = "answered", !.answer = NoAnswer]
          /\ UNCHANGED <<resp, status, restarted, broadcast, pageReply, overlaps>>
    /\ UNCHANGED <<state, sessionActions, clock, startH, stopH, pauseH, resumeH,
                   navH, syncH, pollH, accepted, synced, budget, saveH, stopH2>>
    /\ UNCHANGED <<listener, emitted, now, timers, pointer, fields, burst>>
    /\ UNCHANGED utilVars

\* variant of ContentRestored that leaves the recorder running when paused
ContentRestoredNoPause ==
    /\ content.pc = "answered"
    /\ LET answer == content.answer
       IN IF answer.delivered /\ answer.state \in {"recording", "paused"}
             /\ answer.testName # ""
          THEN content' = [content EXCEPT
                   !.pc = "done",
                   !.recorder = startRecording(@, answer.testName),
                   !.indicator = IF answer.state = "paused"
                                 THEN setPaused(show(@, answer.testName), TRUE)
                                 ELSE show(@, answer.testName)]
          ELSE content' = [content EXCEPT !.pc = "done"]
    /\ UNCHANGED workerVars
    /\ UNCHANGED <<listener, emitted, now, timers, pointer, fields, burst>>
    /\ UNCHANGED utilVars

\* the callback of the GET_STATUS query runs
ContentRestored ==
    /\ content.pc = "answered"
    /\ LET answer == content.answer
       IN IF answer.delivered /\ answer.state \in {"recording", "paused"}
             /\ answer.testName # ""
          THEN content' = [content EXCEPT
                   !.pc = "done",
                   !.recorder = IF answer.state = "paused"
                                THEN pauseRecording(startRecording(@, answer.testName))
                                ELSE startRecording(@, answer.testName),
                   !.indicator = IF answer.state = "paused"
                                 THEN setPaused(show(@, answer.testName), TRUE)
                                 ELSE show(@, answer.testName)]
          ELSE content' = [content EXCEPT !.pc = "done"]
    /\ UNCHANGED workerVars
    /\ UNCHANGED <<listener, emitted, now, timers, pointer, fields, burst>>
    /\ UNCHANGED utilVars

\* the handlers that change the phase of the session, and the pages loaded
\* meanwhile
NextRestore ==
    \/ StartRecording \/ StartQueried \/ StartReplied
    \/ PauseRecording \/ PauseReplied
    \/ ResumeRecording \/ ResumeReplied
    \/ StopRecording \/ StopRead \/ StopReplied \/ StopTabGot \/ StopSaved
    \/ \E t \in Tabs : TabRemoved(t)
    \/ ContentLoaded \/ ContentAnswered \/ ContentRestored

SpecRestore == InitControl /\ [][NextRestore]_vars

\* ---- the EventListener of the content script ----------------------------
\* `now - this.lastClickTime < 500` and `setTimeout(..., 50)` in onClick
DoubleClickMs == 500
NavigationDelayMs == 50

RECURSIVE insideIndicator(_)
\* element.closest('#saveaction-recording-indicator') finds something
insideIndicator(element) ==
    IF element = NoElement THEN FALSE
    ELSE IF element = "indicator" THEN TRUE
    ELSE insideIndicator(Parent[element])

\* the tags among interactiveTags: INPUT, A, BUTTON
isInteractiveElement(element) ==
    element \in {"checkbox", "link", "stopButton"}

\* variant of findInteractiveElement that looks at the raw target only
findInteractiveElementNoWalk(element) ==
    IF element = NoElement \/ element = Body THEN NoElement
    ELSE IF insideIndicator(element) THEN NoElement
    ELSE IF isInteractiveElement(element) THEN element
    ELSE NoElement

RECURSIVE findInteractiveElementNoSkip(_)
\* variant of findInteractiveElement that does not skip the indicator
findInteractiveElementNoSkip(element) ==
    IF element = NoElement \/ element = Body THEN NoElement
    ELSE IF isInteractiveElement(element) THEN element
    ELSE findInteractiveElementNoSkip(Parent[element])

RECURSIVE findInteractiveElement(_)
findInteractiveElement(element) ==
    IF element = NoElement \/ element = Body THEN NoElement
    ELSE IF insideIndicator(element) THEN NoElement
    ELSE IF isInteractiveElement(element) THEN element
    ELSE findInteractiveElement(Parent[element])

\* a link with an href, or a button without a type, outside the indicator
isNavigationClick(element) ==
    IF insideIndicator(element) THEN FALSE
    ELSE element \in {"link", "stopButton"}

createClickAction(target, clickCount) ==
    [id |-> listener.actionSequence + 1, type |-> "click", timestamp |-> now,
     target |-> target, clickCount |-> clickCount]

\* onClick for a click event on `element`, from the pointer or from
\* target.click(); `pending` are the timers that remain when it runs
onClick(element, pending) ==
    LET target == findInteractiveElement(element)
        isDoubleClick == /\ target = listener.lastClickTarget
                         /\ now - listener.lastClickTime < DoubleClickMs
    IN IF ~listener.isListening \/ target = NoElement
       THEN /\ timers' = pending
            /\ UNCHANGED <<listener, emitted>>
       ELSE IF isDoubleClick
       THEN /\ listener' = [listener EXCEPT !.lastClickTarget = target,
                                            !.lastClickTime = now]
            /\ timers' = pending
            /\ UNCHANGED emitted
       ELSE /\ listener' = [listener EXCEPT !.lastClickTarget = target,
                                            !.lastClickTime = now,
                                            !.actionSequence = @ + 1]
            /\ emitted' = Append(emitted, createClickAction(target, 1))
            /\ timers' = IF isNavigationClick(target)
                         THEN pending \cup {[target |-> target,
                                             due |-> now + NavigationDelayMs]}
                         ELSE pending

\* onMouseDown for a mousedown event on `element`
onMouseDown(element) ==
    LET target == findInteractiveElement(element)
    IN IF ~listener.isListening \/ target = NoElement \/ isNavigationClick(target)
       THEN UNCHANGED <<listener, emitted>>
       ELSE /\ listener' = [listener EXCEPT !.actionSequence = @ + 1]
            /\ emitted' = Append(emitted, createClickAction(target, 1))

\* onDoubleClick for a dblclick event on `element`
onDoubleClick(element) ==
    LET target == findInteractiveElement(element)
    IN IF ~listener.isListening \/ target = NoElement
       THEN UNCHANGED <<listener, emitted>>
       ELSE /\ listener' = [listener EXCEPT !.actionSequence = @ + 1]
            /\ emitted' = Append(emitted, createClickAction(target, 2))

\* start(): the listeners are attached
ListenerStart ==
    /\ ~listener.isListening
    /\ listener' = [listener EXCEPT !.isListening = TRUE]
    /\ UNCHANGED <<emitted, now, timers, pointer>>
    /\ UNCHANGED workerVars
    /\ UNCHANGED <<utilVars, content>>
    /\ UNCHANGED inputVars

\* stop(): the listeners are removed
ListenerStop ==
    /\ listener.isListening
    /\ pointer.pc # "dbl"
    /\ listener' = [listener EXCEPT !.isListening = FALSE]
    /\ UNCHANGED <<emitted, now, timers, pointer>>
    /\ UNCHANGED workerVars
    /\ UNCHANGED <<utilVars, content>>
    /\ UNCHANGED inputVars

\* the button goes down on an element: the browser dispatches mousedown. A
\* press on another element, or later than the double-click interval after
\* the last click, begins a new series of clicks.
PointerDown(element) ==
    /\ pointer.pc \in {"idle", "done"}
    /\ listener.actionSequence < MaxEmitted
    /\ LET continues == /\ pointer.pc = "idle" /\ pointer.clicks = 1
                        /\ pointer.target = element
                        /\ now - pointer.lastTime < DoubleClickMs
       IN pointer' = IF continues
                     THEN [pointer EXCEPT !.pc = "down",
                                          !.heard = @ /\ listener.isListening]
                     ELSE [NoGesture EXCEPT !.pc = "down", !.target = element,
                                            !.start = Len(emitted),
                                            !.heard = listener.isListening]
    /\ onMouseDown(element)
    /\ UNCHANGED <<now, timers>>
    /\ UNCHANGED workerVars
    /\ UNCHANGED <<utilVars, content>>
    /\ UNCHANGED inputVars

\* the button is released on the same element: the browser dispatches click,
\* and announces a dblclick if this was the second click of the series
PointerUp ==
    /\ pointer.pc = "down"
    /\ pointer' = [pointer EXCEPT !.pc = IF pointer.clicks = 1 THEN "dbl" ELSE "idle",
                                  !.clicks = @ + 1,
                                  !.lastTime = now,
                                  !.apart = now - pointer.lastTime,
                                  !.heard = @ /\ listener.isListening]
    /\ onClick(pointer.target, timers)
    /\ UNCHANGED now
    /\ UNCHANGED workerVars
    /\ UNCHANGED <<utilVars, content>>
    /\ UNCHANGED inputVars

\* the browser dispatches dblclick right after the second click
DoubleClick ==
    /\ pointer.pc = "dbl"
    /\ pointer' = [pointer EXCEPT !.pc = "done"]
    /\ onDoubleClick(pointer.target)
    /\ UNCHANGED <<now, timers>>
    /\ UNCHANGED workerVars
    /\ UNCHANGED <<utilVars, content>>
    /\ UNCHANGED inputVars

\* a timer of onClick is due: target.click() dispatches a click event
TimerFired ==
    /\ pointer.pc # "dbl"
    /\ listener.actionSequence < MaxEmitted
    /\ \E t \in timers :
         /\ t.due <= now
         /\ onClick(t.target, timers \ {t})
    /\ UNCHANGED <<now, pointer>>
    /\ UNCHANGED workerVars
    /\ UNCHANGED <<utilVars, content>>
    /\ UNCHANGED inputVars

\* time passes in the page: up to the next timer when one is pending, by
\* the double-click interval otherwise
Tick ==
    /\ pointer.pc # "dbl"
    /\ \E due \in IF timers = {} THEN {now + DoubleClickMs}
                   ELSE {t.due : t \in timers} :
         /\ now < due
         /\ due <= MaxTime
         /\ \A t \in timers : due <= t.due
         /\ now' = due
    /\ UNCHANGED <<listener, emitted, timers, pointer>>
    /\ UNCHANGED workerVars
    /\ UNCHANGED <<utilVars, content>>
    /\ UNCHANGED inputVars

NextPage ==
    \/ ListenerStart \/ ListenerStop
    \/ \E e \in Elements : PointerDown(e)
    \/ PointerUp \/ DoubleClick
    \/ TimerFired \/ Tick

\* the content script of one page, the service worker left alone
SpecPage == InitControl /\ [][NextPage]_vars

\* ---- strings ------------------------------------------------------------
\* A string is the sequence of its characters, each a one-character string.
\* Bullet stands for the character U+2022 of maskPassword and maskEmail.
Bullet == "(bullet)"
UpperCase ==
    <<"A", "B", "C", "D", "E", "F", "G", "H", "I", "J", "K", "L", "M",
     "N", "O", "P", "Q", "R", "S", "T", "U", "V", "W", "X", "Y", "Z">>
LowerCase ==
    <<"a", "b", "c", "d", "e", "f", "g", "h", "i", "j", "k", "l", "m",
     "n", "o", "p", "q", "r", "s", "t", "u", "v", "w", "x", "y", "z">>
DigitChars == {"0", "1", "2", "3", "4", "5", "6", "7", "8", "9"}
\* the characters the regular expression class \s matches, of those in use
WhiteSpace == {" "}

\* String.prototype.toLowerCase
toLowerCase(str) ==
    [i \in 1..Len(str) |->
       IF \E k \in 1..Len(UpperCase) : UpperCase[k] = str[i]
       THEN LowerCase[CHOOSE k \in 1..Len(UpperCase) : UpperCase[k] = str[i]]
       ELSE str[i]]

\* String.prototype.includes
Includes(str, pattern) ==
    \E i \in 0..Len(str) :
       /\ i + Len(pattern) <= Len(str)
       /\ SubSeq(str, i + 1, i + Len(pattern)) = pattern

\* String.prototype.indexOf for one character
IndexOf(str, c) ==
    IF \E i \in 1..Len(str) : str[i] = c
    THEN (CHOOSE i \in 1..Len(str) :
             str[i] = c /\ \A j \in 1..(i - 1) : str[j] # c) - 1
    ELSE 0 - 1

\* c.repeat(n)
Repeat(c, n) == [i \in 1..n |-> c]

\* ---- the input handlers of the EventListener ----------------------------
\* the delay of `setTimeout(..., 500)` in onInput
DebounceMs == 500
\* the steps by which the page clock moves while the user types
InputGaps == {DebounceMs - 1, DebounceMs}
\* the value captureInputAction records for a sensitive field
Masked == <<"*", "*", "*", "M", "A", "S", "K", "E", "D", "*", "*", "*">>

\* the attributes of the form fields
FieldAttributes ==
    [f \in FormFields |->
       IF f = "username"
       THEN [tagName |-> "INPUT", type |-> "text", name |-> <<"u", "s", "e", "r", "n", "a", "m", "e">>,
             id |-> <<>>]
       ELSE IF f = "password"
       THEN [tagName |-> "INPUT", type |-> "password", name |-> <<"p", "w", "d">>,
             id |-> <<>>]
       ELSE [tagName |-> "SELECT", type |-> "select-one", name |-> <<"c", "o", "u", "n", "t", "r", "y">>,
             id |-> <<>>]]

\* tagName is INPUT or TEXTAREA
isTextField(target) == FieldAttributes[target].tagName \in {"INPUT", "TEXTAREA"}

\* the patterns of isSensitiveInput
sensitivePatterns ==
    {<<"p", "a", "s", "s", "w", "o", "r", "d">>,
     <<"p", "a", "s", "s", "w", "d">>,
     <<"p", "w", "d">>,
     <<"s", "e", "c", "r", "e", "t">>,
     <<"p", "i", "n">>,
     <<"c", "v", "v">>,
     <<"s", "s", "n">>}

\* isSensitiveInput for an element with these attributes
isSensitiveElement(element) ==
    IF element.tagName = "INPUT"
    THEN \/ element.type = "password"
         \/ \E pattern \in sensitivePatterns :
               \/ Includes(toLowerCase(element.name), pattern)
               \/ Includes(toLowerCase(element.id), pattern)
    ELSE FALSE

isSensitiveInput(element) == isSensitiveElement(FieldAttributes[element])

\* Math.round(a / b) for a >= 0, b > 0
RoundDiv(a, b) == (2 * a + b) \div (2 * b)

\* the action captureInputAction builds for `target`
InputAction(target) ==
    [id |-> listener.actionSequence + 1, type |-> "input", timestamp |-> now,
     target |-> target,
     value |-> IF isSensitiveInput(target) THEN Masked ELSE fields[target],
     isSensitive |-> isSensitiveInput(target),
     typingDelay |-> IF listener.keyCount > 1
                     THEN RoundDiv(now - listener.typingStartTime, listener.keyCount)
                     ELSE 50]

\* variant of onInput that keeps a timer that is already set
onInputNoReschedule(target) ==
    IF ~listener.isListening \/ ~isTextField(target)
    THEN UNCHANGED listener
    ELSE listener' =
           [listener EXCEPT
              !.typingStartTime = IF @ = 0 THEN now ELSE @,
              !.keyCount = (IF listener.typingStartTime = 0 THEN 0 ELSE @) + 1,
              !.pendingInputElement = target,
              !.inputDebounceTimer = IF @ # 0 THEN @ ELSE now + DebounceMs]

\* onInput for an input event on `target`; inputDebounceTimer holds the time
\* at which the pending timer is due, 0 when none is pending
onInput(target) ==
    IF ~listener.isListening \/ ~isTextField(target)
    THEN UNCHANGED listener
    ELSE listener' =
           [listener EXCEPT
              !.typingStartTime = IF @ = 0 THEN now ELSE @,
              !.keyCount = (IF listener.typingStartTime = 0 THEN 0 ELSE @) + 1,
              !.pendingInputElement = target,
              !.inputDebounceTimer = now + DebounceMs]

\* the user changes the text of a field: the browser dispatches input. A
\* timer that is due runs first.
InputEvent(target) ==
    /\ burst.total < MaxInputs
    /\ listener.inputDebounceTimer = 0 \/ now < listener.inputDebounceTimer
    /\ \E v \in (0..MaxTyped) \ {fields[target]} :
         fields' = [fields EXCEPT ![target] = v]
    /\ burst' = IF burst.events > 0 /\ now - burst.last < DebounceMs
                THEN [burst EXCEPT !.field = target, !.last = now,
                                   !.events = @ + 1,
                                   !.single = @ /\ burst.field = target,
                                   !.heard = @ /\ listener.isListening,
                                   !.total = @ + 1]
                ELSE [field |-> target, last |-> now, events |-> 1,
                      single |-> TRUE, heard |-> listener.isListening,
                      start |-> Len(emitted), total |-> burst.total + 1]
    /\ onInput(target)
    /\ UNCHANGED <<emitted, now>>
    /\ UNCHANGED pointerVars
    /\ UNCHANGED workerVars
    /\ UNCHANGED <<utilVars, content>>

\* the debounce timer of onInput is due: its callback captures the pending
\* element
InputTimerFired ==
    /\ listener.inputDebounceTimer # 0
    /\ listener.inputDebounceTimer <= now
    /\ IF listener.pendingInputElement # NoElement
       THEN /\ emitted' = Append(emitted, InputAction(listener.pendingInputElement))
            /\ listener' = [listener EXCEPT !.actionSequence = @ + 1,
                                            !.pendingInputElement = NoElement,
                                            !.typingStartTime = 0,
                                            !.keyCount = 0,
                                            !.inputDebounceTimer = 0]
       ELSE /\ listener' = [listener EXCEPT !.inputDebounceTimer = 0]
            /\ UNCHANGED emitted
    /\ UNCHANGED <<now, fields, burst>>
    /\ UNCHANGED pointerVars
    /\ UNCHANGED workerVars
    /\ UNCHANGED <<utilVars, content>>

\* time passes while the user types, never beyond the pending timer
Elapse ==
    /\ listener.inputDebounceTimer = 0 \/ now < listener.inputDebounceTimer
    /\ \E d \in InputGaps :
         LET next == IF listener.inputDebounceTimer # 0
                        /\ listener.inputDebounceTimer < now + d
                     THEN listener.inputDebounceTimer ELSE now + d
         IN /\ next <= MaxInputTime
            /\ now' = next
    /\ UNCHANGED <<listener, emitted, fields, burst>>
    /\ UNCHANGED pointerVars
    /\ UNCHANGED workerVars
    /\ UNCHANGED <<utilVars, content>>

NextInput ==
    \/ ListenerStart \/ ListenerStop
    \/ \E f \in FormFields : InputEvent(f)
    \/ InputTimerFired
    \/ Elapse

\* the input handlers of the content script of one page
SpecInput == InitControl /\ [][NextInput]_vars

\* a timer that is due runs, and time passes as long as the page clock of
\* the model has not stopped
InputFairness == WF_vars(InputTimerFired) /\ WF_vars(Elapse)

SpecInputLive == InitControl /\ [][NextInput]_vars /\ InputFairness

\* ---- sanitizer.ts -------------------------------------------------------
maskPassword(value) == Repeat(Bullet, Len(value))

\* variant of maskCreditCard that hides the last 4 characters too
maskCreditCardAllDigits(value) ==
    [i \in 1..Len(value) |-> IF value[i] \in DigitChars THEN "*" ELSE value[i]]

maskCreditCard(value) ==
    IF Len(value) <= 4 THEN value
    ELSE LET last4 == SubSeq(value, Len(value) - 3, Len(value))
             head == SubSeq(value, 1, Len(value) - 4)
             masked == [i \in 1..Len(head) |->
                          IF head[i] \in DigitChars THEN "*" ELSE head[i]]
         IN masked \o last4

maskEmail(value) ==
    LET atIndex == IndexOf(value, "@")
    IN IF atIndex <= 2 THEN value
       ELSE LET username == SubSeq(value, 1, atIndex)
                domain == SubSeq(value, atIndex + 1, Len(value))
                visibleChars == SubSeq(username, 1, 2)
                maskedChars == Repeat(Bullet, Len(username) - 2)
            IN visibleChars \o maskedChars \o domain

passwordPatterns ==
    {<<"p", "a", "s", "s", "w", "o", "r", "d">>,
     <<"p", "a", "s", "s", "w", "d">>,
     <<"p", "w", "d">>,
     <<"p", "a", "s", "s">>,
     <<"p", "a", "s", "s", "p", "h", "r", "a", "s", "e">>}
cardPatterns ==
    {<<"c", "a", "r", "d">>,
     <<"c", "c", "-", "n", "u", "m", "b", "e", "r">>,
     <<"c", "a", "r", "d", "n", "u", "m", "b", "e", "r">>,
     <<"c", "a", "r", "d", "_", "n", "u", "m", "b", "e", "r">>,
     <<"c", "r", "e", "d", "i", "t", "c", "a", "r", "d">>,
     <<"c", "r", "e", "d", "i", "t", "-", "c", "a", "r", "d">>}
cvvPatterns ==
    {<<"c", "v", "v">>,
     <<"c", "v", "c">>,
     <<"c", "s", "c">>,
     <<"s", "e", "c", "u", "r", "i", "t", "y", "-", "c", "o", "d", "e">>,
     <<"s", "e", "c", "u", "r", "i", "t", "y", "_", "c", "o", "d", "e">>,
     <<"c", "a", "r", "d", "-", "c", "o", "d", "e">>}
ssnPatterns ==
    {<<"s", "s", "n">>,
     <<"s", "o", "c", "i", "a", "l", "-", "s", "e", "c", "u", "r", "i", "t", "y">>,
     <<"s", "o", "c", "i", "a", "l", "_", "s", "e", "c", "u", "r", "i", "t", "y">>}
pinPatterns ==
    {<<"p", "i", "n">>,
     <<"p", "i", "n", "-", "c", "o", "d", "e">>,
     <<"p", "i", "n", "c", "o", "d", "e">>}

\* `${lowerName} ${lowerId}`
Combined(name, id) == toLowerCase(name) \o <<" ">> \o toLowerCase(id)

isSensitiveField(type, inputType, name, id) ==
    IF type = "password" \/ inputType = "password" THEN TRUE
    ELSE \E pattern \in passwordPatterns \cup cardPatterns \cup cvvPatterns
                          \cup ssnPatterns \cup pinPatterns :
            Includes(Combined(name, id), pattern)

\* /^\d{13,19}$/.test(value.replace(/[\s-]/g, ''))
IsCardDigits(value) ==
    LET stripped == SelectSeq(value, LAMBDA c : c \notin WhiteSpace /\ c # "-")
    IN /\ Len(stripped) >= 13 /\ Len(stripped) <= 19
       /\ \A i \in 1..Len(stripped) : stripped[i] \in DigitChars

sanitizeValue(value, type, name, id) ==
    IF ~isSensitiveField(type, type, name, id)
    THEN IF type = "email" /\ Includes(value, <<"@">>)
         THEN maskEmail(value) ELSE value
    ELSE IF \/ Includes(Combined(name, id), <<"c", "a", "r", "d">>)
            \/ Includes(Combined(name, id), <<"c", "c", "-", "n", "u", "m", "b", "e", "r">>)
            \/ IsCardDigits(value)
         THEN maskCreditCard(value)
         ELSE maskPassword(value)

sanitizeAction(action) ==
    IF action.type # "input" THEN action
    ELSE IF ~action.isSensitive THEN action
    ELSE [action EXCEPT !.value = sanitizeValue(action.value, action.inputType,
                                                action.selector.name,
                                                action.selector.id)]

\* ---- selector-generator.ts: id and name ---------------------------------
HexChars == DigitChars \cup {"a", "b", "c", "d", "e", "f"}
frameworkPrefixes ==
    {<<"r", "e", "a", "c", "t", "-">>,
     <<"v", "u", "e", "-">>,
     <<"n", "g", "-">>,
     <<"e", "m", "b", "e", "r", "-">>}

\* str has `count` characters of `class` in a row from position i on
RunAt(str, i, count, class) ==
    /\ i + count - 1 <= Len(str)
    /\ \A k \in i..(i + count - 1) : str[k] \in class

\* variant of isDynamicId without the hash-like pattern
isDynamicIdNoHash(id) ==
    \/ \E prefix \in frameworkPrefixes :
          /\ Len(prefix) <= Len(id)
          /\ SubSeq(toLowerCase(id), 1, Len(prefix)) = prefix
    \/ \E i \in 1..Len(id) : RunAt(id, i, 6, DigitChars)
    \/ \E i \in 1..Len(id) : id[i] = "-" /\ RunAt(id, i + 1, 13, DigitChars)

isDynamicId(id) ==
    \/ \E prefix \in frameworkPrefixes :
          /\ Len(prefix) <= Len(id)
          /\ SubSeq(toLowerCase(id), 1, Len(prefix)) = prefix
    \/ \E i \in 1..Len(id) : RunAt(id, i, 6, DigitChars)
    \/ \E i \in 1..Len(id) : id[i] = "-" /\ RunAt(id, i + 1, 13, DigitChars)
    \/ RunAt(toLowerCase(id), 1, 8, HexChars)

\* undefined is the empty string
generateIdSelector(element) ==
    IF element.id = <<>> THEN <<>>
    ELSE IF isDynamicId(element.id) THEN <<>>
    ELSE element.id

generateNameSelector(element) ==
    IF element.tagName \in {"INPUT", "SELECT"} THEN element.name ELSE <<>>

\* ---- calls of sanitizer.ts ----------------------------------------------
FieldTypes == {"text", "password", "email"}
FieldNames ==
    {<<>>,
     <<"u", "s", "e", "r", "n", "a", "m", "e">>,
     <<"e", "m", "a", "i", "l">>,
     <<"c", "a", "r", "d", "N", "u", "m", "b", "e", "r">>,
     <<"c", "c", "-", "n", "u", "m", "b", "e", "r">>,
     <<"c", "v", "c">>,
     <<"p", "i", "n">>}
FieldIds ==
    {<<>>,
     <<"c", "c", "N", "u", "m", "b", "e", "r">>}
\* the form fields the capture layer may meet
InputElements ==
    {[tagName |-> "INPUT", type |-> t, name |-> n, id |-> i] :
        t \in FieldTypes, n \in FieldNames, i \in FieldIds}
    \cup {[tagName |-> "TEXTAREA", type |-> "textarea", name |-> n, id |-> <<>>] :
             n \in FieldNames}
\* the texts typed into them
FieldValues ==
    {Repeat("1", n) : n \in 0..MaxDigits}
    \cup {<<"s", "3", "c", "r", "3", "t">>,
          <<"1", "2", "3", "4", "5", "6">>,
          <<"4", "1", "1", "1", " ", "1", "1", "1", "1", " ", "1", "1", "1", "1", " ", "1", "2", "3", "4">>,
          <<"4", "1", "1", "1", "-", "1", "1", "1", "1", "-", "1", "1", "1", "1", "-", "1", "2", "3", "4">>,
          <<"j", "a", "n", "e", ".", "d", "o", "e", "@", "e", "x", "a", "m", "p", "l", "e", ".", "c", "o", "m">>,
          <<"a", "b", "@", "e", "x", "a", "m", "p", "l", "e", ".", "c", "o", "m">>,
          <<"a", "b", "c", "@", "e", "x", "a", "m", "p", "l", "e", ".", "c", "o", "m">>}

\* the input action captureInputAction builds for `element` holding `value`
CapturedAction(element, value) ==
    [type |-> "input",
     selector |-> [id |-> generateIdSelector(element),
                   name |-> generateNameSelector(element)],
     value |-> IF isSensitiveElement(element) THEN Masked ELSE value,
     inputType |-> element.type,
     isSensitive |-> isSensitiveElement(element)]

\* a click action, which carries no value
ClickedAction == [type |-> "click", clickCount |-> 1]

\* sanitizeValue is called, once in a run
SanitizeValue ==
    /\ sanitizerCall = NoCall
    /\ \E value \in FieldValues, type \in FieldTypes,
          name \in FieldNames, id \in FieldIds :
         sanitizerCall' = [fn |-> "sanitizeValue", value |-> value, type |-> type,
                           name |-> name, id |-> id,
                           out |-> sanitizeValue(value, type, name, id)]
    /\ UNCHANGED <<workerVars, pageVars, selectorCall>>

\* sanitizeAction is called on an action of the capture layer, once in a run
SanitizeAction ==
    /\ sanitizerCall = NoCall
    /\ \/ \E element \in InputElements, value \in FieldValues :
            sanitizerCall' =
              [fn |-> "sanitizeAction", element |-> element, typed |-> value,
               action |-> CapturedAction(element, value),
               out |-> sanitizeAction(CapturedAction(element, value))]
       \/ sanitizerCall' =
            [fn |-> "sanitizeAction", element |-> [tagName |-> "BUTTON"],
             typed |-> <<>>, action |-> ClickedAction,
             out |-> sanitizeAction(ClickedAction)]
    /\ UNCHANGED <<workerVars, pageVars, selectorCall>>

NextSanitizer == SanitizeValue \/ SanitizeAction

SpecSanitizer == InitControl /\ [][NextSanitizer]_vars

\* ---- selector-generator.ts: generateSelectors ---------------------------
\* `text.length <= 50` and `text.substring(0, 30)` in generateTextSelector
TextLimit == 50
TextPrefix == 30
\* a candidate that was not produced (undefined)
Absent == <<>>

\* String.prototype.trim
RECURSIVE Trim(_)
Trim(str) ==
    IF str = <<>> THEN str
    ELSE IF Head(str) \in WhiteSpace THEN Trim(Tail(str))
    ELSE IF str[Len(str)] \in WhiteSpace THEN Trim(SubSeq(str, 1, Len(str) - 1))
    ELSE str

\* An element is told by its tag, type, id, name, data-testid, aria-label
\* and textContent, and by whether it is a child of document.body or
\* detached; it has no classes. Strings built from them are sequences whose
\* members are characters or literal pieces of the template.
generateDataTestIdSelector(element) == element.dataTestId

\* element.tagName.toLowerCase(), as one piece
tagNameLower(element) ==
    CASE element.tagName = "INPUT" -> "input"
      [] element.tagName = "BUTTON" -> "button"

generateAriaLabelSelector(element) == element.ariaLabel

generateCssSelector(element) ==
    <<tagNameLower(element)>>
      \o (IF element.tagName = "INPUT" /\ element.type # ""
          THEN <<"[type=", element.type, "]">> ELSE <<>>)

\* [text, textContains]
generateTextSelector(element) ==
    LET text == Trim(element.textContent)
    IN IF text = <<>> THEN [text |-> Absent, textContains |-> Absent]
       ELSE IF Len(text) <= TextLimit THEN [text |-> text, textContains |-> Absent]
       ELSE [text |-> Absent, textContains |-> SubSeq(text, 1, TextPrefix)]

\* siblings.indexOf(element) + 1 for the only child of its tag, 0 when the
\* element has no parent
SiblingIndex(element) == IF element.attached THEN 1 ELSE 0

generateRelativeXPath(element) ==
    IF element.id # <<>> /\ ~isDynamicId(element.id)
    THEN <<"//", tagNameLower(element), "[@id=">> \o element.id \o <<"]">>
    ELSE IF element.dataTestId # <<>>
    THEN <<"//", tagNameLower(element), "[@data-testid=">> \o element.dataTestId \o <<"]">>
    ELSE IF element.tagName = "INPUT" /\ element.name # <<>>
    THEN <<"//", tagNameLower(element), "[@name=">> \o element.name \o <<"]">>
    ELSE <<"//", tagNameLower(element), "[", SiblingIndex(element), "]">>

generateAbsoluteXPath(element) ==
    <<"/html/">>
      \o (IF element.attached THEN <<"body", "[", 1, "]", "/">> ELSE <<>>)
      \o <<tagNameLower(element), "[", SiblingIndex(element), "]">>

\* <<parent, index>>
generatePositionSelector(element) ==
    IF ~element.attached THEN Absent ELSE <<"body", 0>>

\* the order in which generateSelectors tries the candidates
SelectorOrder ==
    <<"id", "dataTestId", "ariaLabel", "name", "css", "text", "textContains",
      "xpath", "xpathAbsolute", "position">>

\* what priority.push(key) adds when `value` is truthy
Push(value, key) == IF value # Absent THEN <<key>> ELSE <<>>

\* variant of generateSelectors that stops at the first candidate produced
generateSelectorsFirstOnly(element, config) ==
    LET id == generateIdSelector(element)
        css == IF id # Absent THEN Absent ELSE generateCssSelector(element)
    IN [id |-> id, dataTestId |-> Absent, ariaLabel |-> Absent, name |-> Absent,
        css |-> css, text |-> Absent, textContains |-> Absent,
        xpath |-> Absent, xpathAbsolute |-> Absent, position |-> Absent,
        priority |-> Push(id, "id") \o Push(css, "css")]

generateSelectors(element, config) ==
    LET id == generateIdSelector(element)
        dataTestId == generateDataTestIdSelector(element)
        ariaLabel == generateAriaLabelSelector(element)
        name == generateNameSelector(element)
        css == generateCssSelector(element)
        texts == generateTextSelector(element)
        textContains == IF texts.text # Absent THEN Absent ELSE texts.textContains
        xpath == IF config.includeXPath THEN generateRelativeXPath(element) ELSE Absent
        xpathAbsolute ==
            IF config.includeXPath THEN generateAbsoluteXPath(element) ELSE Absent
        position ==
            IF config.includePosition THEN generatePositionSelector(element) ELSE Absent
    IN [id |-> id, dataTestId |-> dataTestId, ariaLabel |-> ariaLabel,
        name |-> name, css |-> css, text |-> texts.text,
        textContains |-> textContains, xpath |-> xpath,
        xpathAbsolute |-> xpathAbsolute, position |-> position,
        priority |->
            Push(id, "id") \o Push(dataTestId, "dataTestId")
              \o Push(ariaLabel, "ariaLabel") \o Push(name, "name")
              \o Push(css, "css")
              \o (IF texts.text # Absent THEN <<"text">>
                  ELSE Push(texts.textContains, "textContains"))
              \o Push(xpath, "xpath") \o Push(xpathAbsolute, "xpathAbsolute")
              \o Push(position, "position")]

\* ---- calls of generateSelectors -----------------------------------------
ElementIds ==
    {<<>>,
     <<"o", "k">>,
     <<"l", "o", "g", "i", "n", "-", "b", "t", "n">>,
     <<"r", "e", "a", "c", "t", "-", "4", "8", "2", "1", "3">>,
     <<"V", "u", "e", "-", "m", "a", "i", "n">>,
     <<"n", "g", "-", "a", "p", "p">>,
     <<"e", "m", "b", "e", "r", "-", "v", "i", "e", "w">>,
     <<"i", "t", "e", "m", "1", "2", "3", "4", "5", "6">>,
     <<"r", "o", "w", "-", "1", "2", "3", "4", "5", "6", "7", "8", "9", "0", "1", "2", "3">>,
     <<"d", "e", "a", "d", "b", "e", "e", "f", "0", "1">>,
     <<"a", "b", "c", "1", "2", "3", "4", "5">>,
     <<"a", "b", "c", "1", "2", "3", "4">>,
     <<"f", "e", "e", "d", "b", "a", "c", "k">>}
ElementTexts == {Repeat("x", n) : n \in 0..MaxText} \cup {<<" ">>, <<" ", "x", " ">>}
\* the elements generateSelectors may be given
SelectorElements ==
    {[tagName |-> "INPUT", type |-> "text", id |-> i, name |-> n,
      dataTestId |-> <<>>, ariaLabel |-> a, textContent |-> <<>>, attached |-> at] :
        i \in ElementIds, n \in {<<>>, <<"u", "s", "e", "r", "n", "a", "m", "e">>}, a \in {<<>>, <<"C", "l", "o", "s", "e">>},
        at \in BOOLEAN}
    \cup {[tagName |-> "BUTTON", type |-> "", id |-> i, name |-> <<>>,
           dataTestId |-> d, ariaLabel |-> <<>>, textContent |-> t, attached |-> TRUE] :
             i \in {<<>>, <<"l", "o", "g", "i", "n", "-", "b", "t", "n">>, <<"r", "e", "a", "c", "t", "-", "4", "8", "2", "1", "3">>},
             d \in {<<>>, <<"s", "u", "b", "m", "i", "t">>}, t \in ElementTexts}
SelectorConfigs == [includeXPath : BOOLEAN, includePosition : BOOLEAN]

\* generateSelectors is called, once in a run
GenerateSelectors ==
    /\ selectorCall = NoCall
    /\ \E element \in SelectorElements, config \in SelectorConfigs :
         selectorCall' = [fn |-> "generateSelectors", element |-> element,
                          config |-> config,
                          out |-> generateSelectors(element, config)]
    /\ UNCHANGED <<workerVars, pageVars, sanitizerCall>>

NextSelector == GenerateSelectors

SpecSelector == InitControl /\ [][NextSelector]_vars

\* ---- sanitizer.ts: the validators over arbitrary values ------------------
\* What the validators are handed at run time is any JavaScript value, not
\* only a well-typed Recording: a value is told by its type tag, a string is
\* a sequence of characters, an absent property is undefined.
JsUndefined == [t |-> "undefined"]
JsNull == [t |-> "null"]
JsNumber(n) == [t |-> "number", n |-> n]
JsString(str) == [t |-> "string", s |-> str]
JsArray(items) == [t |-> "array", items |-> items]

\* ToBoolean
Truthy(v) ==
    CASE v.t \in {"undefined", "null"} -> FALSE
      [] v.t = "number" -> v.n # 0
      [] v.t = "string" -> v.s # <<>>
      [] OTHER -> TRUE

\* object[key], undefined for a property the object lacks
Property(object, key) ==
    IF key \in DOMAIN object THEN object[key] ELSE JsUndefined

\* whether `new URL(str)` succeeds, for the strings drawn here: an absolute
\* URL starts with a scheme and a colon
ParsesAsAbsoluteURL(str) ==
    \E i \in 2..Len(str) :
        /\ str[i] = ":"
        /\ i < Len(str)
        /\ \A k \in 1..(i - 1) : \E c \in 1..Len(LowerCase) : LowerCase[c] = str[k]

\* whether `new Date(str).getTime()` is a number, for the strings drawn
\* here: the shape YYYY-MM-DDTHH:mm:ss.sssZ
ParsesAsDate(str) ==
    /\ Len(str) = 24
    /\ \A i \in 1..24 :
         CASE i \in {5, 8} -> str[i] = "-"
           [] i = 11 -> str[i] = "T"
           [] i \in {14, 17} -> str[i] = ":"
           [] i = 20 -> str[i] = "."
           [] i = 24 -> str[i] = "Z"
           [] OTHER -> str[i] \in DigitChars

\* `for (const key of selector.priority)` throws a TypeError on a truthy
\* value that is not iterable
validateSelectorThrows(selector) ==
    /\ Truthy(selector.priority)
    /\ selector.priority.t \notin {"array", "string"}

\* the fields of the errors validateSelector collects, in order
validateSelector(selector) ==
    LET priority == selector.priority
        keys == IF priority.t = "array" THEN priority.items ELSE <<>>
        undefinedAt(i) ==
            LET selectorValue == Property(selector, keys[i])
            IN IF ~Truthy(selectorValue) \/ selectorValue.t = "object"
               THEN <<<<"selector.", keys[i]>>>> ELSE <<>>
        RECURSIVE referenced(_)
        referenced(i) ==
            IF i > Len(keys) THEN <<>> ELSE undefinedAt(i) \o referenced(i + 1)
        hasAnySelector ==
            \E key \in DOMAIN selector \ {"t", "priority"} : Truthy(selector[key])
    IN (IF ~Truthy(priority) \/ (priority.t = "array" /\ Len(priority.items) = 0)
        THEN <<<<"selector.priority">>>> ELSE <<>>)
         \o referenced(1)
         \o (IF ~hasAnySelector THEN <<<<"selector">>>> ELSE <<>>)

\* reading `action.id` throws a TypeError on null and undefined; so does an
\* uniterable priority of the action's selector
validateActionThrows(action) ==
    \/ action.t \in {"null", "undefined"}
    \/ /\ action.type \in {JsString(<<"c", "l", "i", "c", "k">>), JsString(<<"i", "n", "p", "u", "t">>)}
       /\ Truthy(action.selector)
       /\ validateSelectorThrows(action.selector)

\* what `if (!action.x) errors.push({field: name})` adds
Required(value, name) == IF ~Truthy(value) THEN <<<<name>>>> ELSE <<>>

\* the fields of the errors validateAction collects, in order, for any value
\* it does not throw on
validateActionErrors(action) ==
    Required(action.id, "action.id")
      \o Required(action.type, "action.type")
      \o (IF action.timestamp.t # "number" \/ action.timestamp.n < 0
          THEN <<<<"action.timestamp">>>> ELSE <<>>)
      \o Required(action.url, "action.url")
      \o (CASE action.type = JsString(<<"c", "l", "i", "c", "k">>) ->
                 (IF ~Truthy(action.selector) THEN <<<<"action.selector">>>>
                  ELSE validateSelector(action.selector))
                   \o Required(action.tagName, "action.tagName")
                   \o Required(action.coordinates, "action.coordinates")
            [] action.type = JsString(<<"i", "n", "p", "u", "t">>) ->
                 (IF ~Truthy(action.selector) THEN <<<<"action.selector">>>>
                  ELSE validateSelector(action.selector))
                   \o (IF action.value.t \in {"undefined", "null"}
                       THEN <<<<"action.value">>>> ELSE <<>>)
                   \o Required(action.inputType, "action.inputType")
            [] action.type = JsString(<<"n", "a", "v", "i", "g", "a", "t", "i", "o", "n">>) ->
                 Required(action.from, "action.from")
                   \o Required(action.to, "action.to")
            [] OTHER -> <<>>)

\* `recording.testName.trim()` throws a TypeError on a truthy value that is
\* not a string; validateAction throws inside the forEach
validateRecordingThrows(recording) ==
    \/ Truthy(recording.testName) /\ recording.testName.t # "string"
    \/ /\ recording.actions.t = "array"
       /\ \E i \in 1..Len(recording.actions.items) :
            validateActionThrows(recording.actions.items[i])

\* the fields of the errors validateRecording collects, in order
validateRecordingErrors(recording) ==
    LET actions == recording.actions
        prefixed(i) ==
            LET actionErrors == validateActionErrors(actions.items[i])
            IN [k \in 1..Len(actionErrors) |->
                   <<"actions[", i - 1, "].">> \o actionErrors[k]]
        RECURSIVE each(_)
        each(i) == IF i > Len(actions.items) THEN <<>> ELSE prefixed(i) \o each(i + 1)
    IN Required(recording.id, "recording.id")
         \o Required(recording.version, "recording.version")
         \o (IF ~Truthy(recording.testName) \/ Trim(recording.testName.s) = <<>>
             THEN <<<<"recording.testName">>>> ELSE <<>>)
         \o (IF ~Truthy(recording.url) THEN <<<<"recording.url">>>>
             ELSE IF ~ParsesAsAbsoluteURL(recording.url.s) THEN <<<<"recording.url">>>>
             ELSE <<>>)
         \o (IF ~Truthy(recording.startTime) THEN <<<<"recording.startTime">>>>
             ELSE IF ~ParsesAsDate(recording.startTime.s)
             THEN <<<<"recording.startTime">>>>
             ELSE <<>>)
         \o (IF Truthy(recording.endTime) /\ ~ParsesAsDate(recording.endTime.s)
             THEN <<<<"recording.endTime">>>> ELSE <<>>)
         \o (IF ~Truthy(recording.viewport) THEN <<<<"recording.viewport">>>>
             ELSE IF \/ recording.viewport.width.t # "number"
                     \/ recording.viewport.height.t # "number"
                     \/ recording.viewport.width.n <= 0
                     \/ recording.viewport.height.n <= 0
             THEN <<<<"recording.viewport">>>>
             ELSE <<>>)
         \o Required(recording.userAgent, "recording.userAgent")
         \o (IF actions.t # "array" THEN <<<<"recording.actions">>>> ELSE each(1))

\* validateRecording for any value with properties: it throws, or returns
\* {isValid, errors}
validateRecordingResult(recording) ==
    IF validateRecordingThrows(recording) THEN [threw |-> TRUE]
    ELSE LET errors == validateRecordingErrors(recording)
         IN [threw |-> FALSE, isValid |-> Len(errors) = 0, errors |-> errors]

\* the SelectorStrategy object generateSelectors returns, as the value
\* validateSelector is handed: a candidate that was produced is a string,
\* position is the object {parent, index}, the others are not set
StrategyValue(out) ==
    [key \in {"t", "priority"} \cup {SelectorOrder[i] : i \in 1..Len(SelectorOrder)} |->
        CASE key = "t" -> "object"
          [] key = "priority" -> JsArray(out.priority)
          [] out[key] = Absent -> JsUndefined
          [] key = "position" ->
               [t |-> "object", parent |-> JsString(<<out.position[1]>>),
                index |-> JsNumber(out.position[2])]
          [] OTHER -> JsString(out[key])]

\* ---- calls of validateRecording -----------------------------------------
\* an action with no property set
BlankAction ==
    [t |-> "object", id |-> JsUndefined, type |-> JsUndefined,
     timestamp |-> JsUndefined, url |-> JsUndefined, selector |-> JsUndefined,
     tagName |-> JsUndefined, coordinates |-> JsUndefined, value |-> JsUndefined,
     inputType |-> JsUndefined, from |-> JsUndefined, to |-> JsUndefined]
Selector(priority) ==
    [t |-> "object", priority |-> priority, css |-> JsString(<<"b", "u", "t", "t", "o", "n">>),
     position |-> [t |-> "object"]]
ClickOn(selector) ==
    [BlankAction EXCEPT !.id = JsString(<<"a", "c", "t", "_", "0", "0", "1">>), !.type = JsString(<<"c", "l", "i", "c", "k">>),
                        !.timestamp = JsNumber(1), !.url = JsString(<<"h", "t", "t", "p", "s", ":", "/", "/", "s", "h", "o", "p", ".", "t", "e", "s", "t", "/", "c", "a", "r", "t">>),
                        !.selector = selector, !.tagName = JsString(<<"b", "u", "t", "t", "o", "n">>),
                        !.coordinates = [t |-> "object"]]
\* the members a recording's `actions` may hold
ActionValues ==
    {ClickOn(Selector(JsArray(<<"css">>))),
     ClickOn(Selector(JsArray(<<"css", "position", "id">>))),
     ClickOn(Selector(JsNumber(1))),
     [BlankAction EXCEPT !.type = JsString(<<"n", "a", "v", "i", "g", "a", "t", "i", "o", "n">>), !.timestamp = JsNumber(-1)],
     JsNull}
RECURSIVE ActionLists(_)
ActionLists(n) ==
    IF n = 0 THEN {<<>>}
    ELSE LET shorter == ActionLists(n - 1)
         IN shorter \cup {Append(l, a) : l \in {x \in shorter : Len(x) = n - 1},
                                         a \in ActionValues}
Texts(strs) == {JsUndefined} \cup {JsString(str) : str \in strs}
ViewportSides == {JsNumber(-1), JsNumber(0), JsNumber(1280), JsString(<<"w", "i", "d", "e">>)}
\* the recordings validateRecording may be given: every property missing,
\* malformed, of another type, or in order
RecordingValues ==
    [t : {"object"},
     id : Texts({<<"r", "e", "c", "_", "1">>}),
     version : Texts({<<"1", ".", "0", ".", "0">>}),
     testName : Texts({<<>>, <<" ">>, <<"L", "o", "g", "i", "n">>}) \cup {JsNumber(42)},
     url : Texts({<<"h", "t", "t", "p", "s", ":", "/", "/", "s", "h", "o", "p", ".", "t", "e", "s", "t", "/", "c", "a", "r", "t">>, <<"s", "h", "o", "p", ".", "t", "e", "s", "t", "/", "c", "a", "r", "t">>}),
     startTime : Texts({<<"2", "0", "2", "4", "-", "0", "1", "-", "1", "5", "T", "1", "0", ":", "3", "0", ":", "0", "0", ".", "0", "0", "0", "Z">>, <<"y", "e", "s", "t", "e", "r", "d", "a", "y">>}),
     endTime : Texts({<<"2", "0", "2", "4", "-", "0", "1", "-", "1", "5", "T", "1", "0", ":", "3", "0", ":", "0", "0", ".", "0", "0", "0", "Z">>, <<"y", "e", "s", "t", "e", "r", "d", "a", "y">>}),
     viewport : {JsUndefined}
                  \cup [t : {"object"}, width : ViewportSides,
                        height : {JsNumber(0), JsNumber(720)}],
     userAgent : Texts({<<"U", "A">>}),
     actions : {JsUndefined} \cup {JsArray(l) : l \in ActionLists(MaxValidated)}]

\* validateRecording is called, once in a run
ValidateRecording ==
    /\ sanitizerCall = NoCall
    /\ \E recording \in RecordingValues :
         sanitizerCall' = [fn |-> "validateRecording", recording |-> recording,
                           out |-> validateRecordingResult(recording)]
    /\ UNCHANGED <<workerVars, pageVars, selectorCall>>

NextValidator == ValidateRecording

SpecValidator == InitControl /\ [][NextValidator]_vars

TypeOK ==
    /\ budget \in {DataBudget, ControlBudget, SerialBudget}
    /\ state.actionCounter \in 0..budget.actions
    /\ synced \in 0..budget.actions
    /\ clock \in 0..budget.sessions
    /\ overlaps \in 0..budget.overlaps
    /\ listener.actionSequence = Len(emitted)
    /\ listener.actionSequence \in Nat
    /\ now \in (0..MaxTime) \cup (0..MaxInputTime)
    /\ fields \in [FormFields -> 0..MaxTyped]
    /\ burst.total \in 0..MaxInputs
    /\ pointer.pc \in {"idle", "down", "dbl", "done"}
    /\ pointer.target \in Elements \cup {NoElement}
    /\ stopH2.pc \in {"idle", "read", "send", "tabget", "save"}
    /\ content.pc \in {"none", "asked", "answered", "done"}
    /\ content.recorder.phase \in {"idle", "recording", "paused"}

\* ---- helpers of the properties ------------------------------------------
Range(s) == {s[i] : i \in 1..Len(s)}
Ids(s) == [i \in 1..Len(s) |-> s[i].id]
Occurrences(s, x) == Cardinality({i \in 1..Len(s) : s[i] = x})
IsPermutation(s, t) ==
    /\ Len(s) = Len(t)
    /\ \A x \in Range(s) \cup Range(t) : Occurrences(s, x) = Occurrences(t, x)
SortedByTimestamp(s) ==
    \A i, j \in 1..Len(s) : i < j => s[i].timestamp <= s[j].timestamp
DistinctTimestamps(s) ==
    \A i, j \in 1..Len(s) : i # j => s[i].timestamp # s[j].timestamp
StopSucceeded == resp.op = "stop" /\ resp.success
\* the session fields a rejected request must leave alone
SessionFields(st) ==
    <<st.testName, st.currentTabId, st.startTime, st.actionCounter,
      st.accumulatedActions, Phase(st)>>

\* C1: while a session is recording, has accepted an action, and no
\* SYNC_ACTION or navigation handler is suspended, the ids in
\* accumulatedActions followed by the durable cache are
\* act_001 .. act_<actionCounter>, in that order, in a run whose handlers
\* never overlapped.
C1_IdsContiguousInStore ==
    (state.isRecording /\ state.actionCounter > 0 /\ SyncSettled /\ overlaps = 0)
    => Ids(state.accumulatedActions \o sessionActions)
         = [k \in 1..state.actionCounter |-> ActionId(k)]

\* C2: the recording a stop has assembled contains every action the session
\* had accepted when stop was entered, provided every other handler had
\* finished by then and the state was not reset in between.
C2_NoAcceptedActionDropped ==
    (/\ stopH.pc = "save" /\ stopH.entryQuiescent
     /\ stopH.entryClock = clock /\ state.isRecording)
    => \A k \in 1..stopH.entryAccepted :
         k <= Len(accepted) /\ accepted[k] \in Range(stopH.recording.actions)

\* C3: after a navigation merge, with actions accepted in the session whose
\* timestamps are pairwise distinct and
\* with handlers that never overlapped, the recording stop assembles holds
\* exactly the session's accepted actions, each once.
C3_UnionExactlyOnce ==
    (/\ stopH.pc = "save" /\ stopH.entryClock = clock /\ state.isRecording
     /\ overlaps = 0
     /\ state.accumulatedActions # <<>>
     /\ accepted # <<>>
     /\ DistinctTimestamps(accepted))
    => IsPermutation(stopH.recording.actions, accepted)

\* C4: every recording returned by a successful stop is sorted ascending by
\* timestamp.
C4_RecordingSorted ==
    (StopSucceeded /\ overlaps = 0) => SortedByTimestamp(resp.data.actions)

\* C5: in every recording returned by stop the ids are unique and are
\* exactly act_001 .. act_N for N actions.
C5_RecordingIdsContiguous ==
    (StopSucceeded /\ overlaps = 0)
    => LET ids == Ids(resp.data.actions)
       IN /\ \A i, j \in 1..Len(ids) : i # j => ids[i] # ids[j]
          /\ Range(ids) = {ActionId(k) : k \in 1..Len(ids)}

\* C6: once the navigation merge is done, accumulatedActions holds at most
\* one action per timestamp.
C6_MergeDeduplicates ==
    (navH.pc = "remove" /\ overlaps = 0)
    => DistinctTimestamps(state.accumulatedActions)

\* C7: a start followed by a stop with no SYNC_ACTION accepted in between
\* returns a recording with no actions that validateRecording accepts.
C7_EmptySessionValid ==
    (StopSucceeded /\ accepted = <<>> /\ overlaps = 0)
    => (resp.data.actions = <<>> /\ isValid(resp.data))

\* C8: a stop handler that got past its entry checks (it was entered while
\* recording or paused, with the tab and the metadata set) at a moment when
\* no other handler was suspended answers success, whatever the page replies.
C8_StopAlwaysSucceeds ==
    [][(stopH.pc # "idle" /\ stopH.entryQuiescent /\ resp'.op = "stop")
       => resp'.success]_vars

\* C9: START_RECORDING arriving while recording or paused is answered with
\* the already-recording error, enters no handler body and leaves the
\* session fields as they were.
C9_StartWhileRecordingRejected ==
    [][(state.isRecording /\ startH.pc = "idle")
       => /\ startH'.pc = "idle"
          /\ (resp'.op = "start"
              => /\ ~resp'.success
                 /\ resp'.error = "Recording is already in progress"
                 /\ SessionFields(state') = SessionFields(state))]_vars

C9_Witness ==
    /\ resp.op = "start" /\ resp.error = "Recording is already in progress"
    /\ state.isRecording /\ state.actionCounter > 0

\* C10: PAUSE_RECORDING is taken up only in phase recording and
\* RESUME_RECORDING only in phase paused; in any other phase the request is
\* answered with an error and the phase stays as it was, and a success
\* answer only ever comes from a handler that was taken up.
C10_PauseResumeOnlyFromValidPhase ==
    [][/\ (pauseH.pc = "idle" /\ Phase(state) # "recording")
          => /\ pauseH'.pc = "idle"
             /\ (resp'.op = "pause"
                 => ~resp'.success /\ Phase(state') = Phase(state))
       /\ (resumeH.pc = "idle" /\ Phase(state) # "paused")
          => /\ resumeH'.pc = "idle"
             /\ (resp'.op = "resume"
                 => ~resp'.success /\ Phase(state') = Phase(state))
       /\ (resp'.op = "pause" /\ resp'.success) => pauseH.pc = "send"
       /\ (resp'.op = "resume" /\ resp'.success) => resumeH.pc = "send"]_vars

C10_Witness ==
    /\ resp.op = "pause" /\ resp.error = "Recording is already paused"
    /\ Phase(state) = "paused"

\* C11: when the PAUSE_RECORDING or RESUME_RECORDING send to the page is
\* rejected, the handler answers with an error and its step leaves the whole
\* session state as it is; in a run whose handlers never overlapped the phase
\* is then the one the request found (recording for pause, paused for resume).
C11_RejectedPauseResumeKeepsPhase ==
    [][/\ (pauseH.pc = "send" /\ pauseH'.pc = "idle" /\ pageReply' = "rejected")
          => /\ resp'.op = "pause" /\ ~resp'.success
             /\ state' = state
             /\ (overlaps = 0 => Phase(state') = "recording")
       /\ (resumeH.pc = "send" /\ resumeH'.pc = "idle" /\ pageReply' = "rejected")
          => /\ resp'.op = "resume" /\ ~resp'.success
             /\ state' = state
             /\ (overlaps = 0 => Phase(state') = "paused")]_vars

C11_Witness ==
    /\ pageReply = "rejected" /\ resp.op = "pause" /\ ~resp.success
    /\ Phase(state) = "recording" /\ overlaps = 0

\* C12: a start that finds no active tab (or a tab without id) answers with
\* an error and writes nothing, so in a run whose handlers never overlapped
\* the state is still the initial one; a start whose START_RECORDING send is
\* rejected answers with an error and leaves the initial state behind: not
\* recording, no tab, counter 0, nothing accumulated, no poll timer.
C12_FailedStartLeavesIdle ==
    [][/\ (startH.pc = "query" /\ startH'.pc = "idle")
          => /\ resp'.op = "start" /\ ~resp'.success
             /\ state' = state
             /\ (overlaps = 0 => state' = InitialState)
       /\ (startH.pc = "send" /\ pageReply' = "rejected" /\ startH'.pc = "idle")
          => /\ resp'.op = "start" /\ ~resp'.success
             /\ state' = InitialState]_vars

C12_Witness ==
    /\ pageReply = "rejected" /\ resp.op = "start" /\ ~resp.success
    /\ state = InitialState /\ clock > 0


\* C13: a STOP_RECORDING handled while nothing is recording is answered with an
\* error and writes nothing; one handled with a session but no tab id is
\* answered with an error and resets the state. Once the handler is past its
\* guards, it answers with an error exactly at the step where the page gave no
\* usable recording and testName or startTime is absent, and that step leaves
\* the initial state; every other way the handler ends is a success.
C13_StopFailsOnlyWithoutMetadata ==
    [][/\ (stopH.pc = "idle" /\ ~state.isRecording /\ resp'.op = "stop")
          => /\ ~resp'.success /\ state' = state /\ stopH' = stopH
       /\ (stopH.pc = "idle" /\ state.isRecording /\ resp'.op = "stop")
          => /\ ~resp'.success /\ state.currentTabId = 0
             /\ state' = InitialState
       /\ (stopH.pc = "send" /\ stopH'.pc # "send")
          => LET missing == /\ pageReply' \in {"unusable", "rejected"}
                            /\ (state.testName = "" \/ state.startTime = 0)
             IN IF missing
                THEN /\ resp'.op = "stop" /\ ~resp'.success
                     /\ state' = InitialState /\ stopH'.pc = "idle"
                ELSE /\ resp' = NoResponse
                     /\ stopH'.pc \in {"tabget", "save"}
       /\ (stopH.pc \in {"read", "tabget"} /\ stopH' # stopH)
          => resp' = NoResponse /\ stopH'.pc # "idle"
       /\ (stopH.pc = "save" /\ stopH' # stopH)
          => /\ resp'.op = "stop" /\ resp'.success
             /\ stopH'.pc = "idle"]_vars

\* a stop that found the metadata gone has answered with the error and reset
C13_Witness ==
    /\ resp.op = "stop" /\ ~resp.success
    /\ pageReply \in {"unusable", "rejected"}
    /\ state = InitialState /\ clock > 0

\* C14: the only step that sends a STATUS_UPDATE without answering a request
\* is the chrome.tabs.onRemoved listener firing for the recording tab while a
\* session is recording or paused; that step leaves exactly the initial state,
\* announces "idle", assembles and saves nothing (the stop frame and the
\* response are untouched) and leaves the stored per-page array as it was.
C14_TabClosedResetsWithoutRecording ==
    [][(state.isRecording /\ broadcast' # "none" /\ resp' = NoResponse)
       => /\ state' = InitialState
          /\ broadcast' = "idle"
          /\ stopH' = stopH
          /\ sessionActions' = sessionActions]_vars

\* the tab was closed with an action still in the stored array
C14_Witness ==
    /\ broadcast = "idle" /\ resp = NoResponse
    /\ state = InitialState /\ sessionActions # <<>>

C16_SyncOnlyWhileRecording ==
    [][\A i \in SyncIds :
         (syncH[i].pc = "idle" /\ syncH'[i].pc = "read")
         => /\ Phase(state) = "recording"
            /\ state'.actionCounter = state.actionCounter + 1]_vars

\* C17: the answer a GET_STATUS has just been given names the phase of the
\* state, carries metadata exactly when that phase is "recording" or "paused",
\* and then the metadata are the testName and startTime of the state and an
\* actionCount equal to the number of accumulated actions plus the number of
\* actions in the stored per-page array.
C17_StatusCountsStoredActions ==
    resp.op = "status"
    => /\ status.state = Phase(state)
       /\ (status.metadata # NoMetadata) <=> (Phase(state) \in {"recording", "paused"})
       /\ status.metadata # NoMetadata
          => /\ status.metadata.testName = state.testName
             /\ status.metadata.startTime = state.startTime
             /\ status.metadata.actionCount
                  = Len(state.accumulatedActions) + Len(sessionActions)

\* C18: a restart of the service worker while a session is recording or
\* paused leaves the phase, testName, startTime, the action counter and the
\* accumulated actions as they were.
C18_SessionSurvivesRestart ==
    [][(restarted' /\ state.isRecording)
       => SessionFields(state') = SessionFields(state)]_vars

\* no handler of a request is suspended
RequestsSettled ==
    /\ startH.pc = "idle" /\ stopH.pc = "idle" /\ pauseH.pc = "idle"
    /\ resumeH.pc = "idle" /\ saveH.pc = "idle"
    /\ \A i \in SyncIds : syncH[i].pc = "idle"

\* C19: a START_, STOP_, PAUSE_, RESUME_RECORDING, SYNC_ACTION or
\* SAVE_CURRENT_STATE handler that has been suspended eventually ends (again
\* and again a state is reached in which none of them is suspended); the step
\* that ends it is the step that answers the request, and an answer to a
\* request of a kind is only given by a step after which that handler is not
\* left suspended by it, so that no invocation answers twice or ends
\* unanswered; a rejected send to the page makes start, pause, resume and
\* save answer in that very step.
C19_EveryRequestAnsweredOnce ==
    /\ [][/\ (startH.pc # "idle" /\ startH'.pc = "idle") => resp'.op = "start"
          /\ (stopH.pc # "idle" /\ stopH'.pc = "idle") => resp'.op = "stop"
          /\ (pauseH.pc # "idle" /\ pauseH'.pc = "idle") => resp'.op = "pause"
          /\ (resumeH.pc # "idle" /\ resumeH'.pc = "idle") => resp'.op = "resume"
          /\ (saveH.pc # "idle" /\ saveH'.pc = "idle") => resp'.op = "save"
          /\ \A i \in SyncIds :
               (syncH[i].pc # "idle" /\ syncH'[i].pc = "idle") => resp'.op = "sync"
          /\ resp'.op = "start" => startH'.pc = "idle"
          /\ resp'.op = "stop" => stopH'.pc = "idle"
          /\ resp'.op = "pause" => pauseH'.pc = "idle"
          /\ resp'.op = "resume" => resumeH'.pc = "idle"
          /\ resp'.op = "save" => saveH'.pc = "idle"
          /\ resp'.op = "sync"
             => \/ syncH' = syncH
                \/ \E i \in SyncIds :
                     /\ syncH[i].pc # "idle"
                     /\ syncH' = [syncH EXCEPT ![i] = IdleSync]
          /\ (pageReply' = "rejected" /\ stopH' = stopH)
             => resp'.op \in {"start", "pause", "resume", "save"}]_vars
    /\ []<>RequestsSettled

\* a SAVE_CURRENT_STATE whose send to the page was rejected has been answered
C19_Witness ==
    /\ pageReply = "rejected" /\ resp.op = "save" /\ resp.success
    /\ saveH.pc = "idle"

\* the actions emitted for `target` since the running series of clicks began
SeriesActions(clickCount) ==
    {i \in pointer.start + 1..Len(emitted) :
        /\ emitted[i].target = findInteractiveElement(pointer.target)
        /\ emitted[i].clickCount = clickCount}

\* C20: once the dblclick event of a double-click on an interactive target
\* was handled, its two clicks less than 500 ms apart and the listeners
\* attached all along, the actions emitted for that target since the first
\* press are exactly one action of clickCount 2 and at most one action of
\* clickCount 1 (the first click's).
C20_DoubleClickEmitsOneDoubleclick ==
    (/\ pointer.pc = "done" /\ pointer.heard /\ pointer.apart < DoubleClickMs
     /\ findInteractiveElement(pointer.target) # NoElement)
    => /\ Cardinality(SeriesActions(2)) = 1
       /\ Cardinality(SeriesActions(1)) <= 1

\* C21: once the click event of one physical click (mousedown, then click)
\* on an interactive element that is no navigation target was handled, with
\* the listeners attached all along, the action callback was called exactly
\* once for that element since the press.
C21_OneActionPerClick ==
    (/\ pointer.pc = "idle" /\ pointer.clicks = 1 /\ pointer.heard
     /\ findInteractiveElement(pointer.target) # NoElement
     /\ ~isNavigationClick(pointer.target))
    => Cardinality(SeriesActions(1)) + Cardinality(SeriesActions(2)) = 1

\* the actions emitted since the running burst of input events began
BurstActions == {i \in 1..Len(emitted) : i > burst.start}

C23_RetriggeredClickNotRecorded ==
    [][(pointer' = pointer /\ timers' # timers)
       => /\ emitted' = emitted
          /\ timers' \subseteq timers]_vars

\* C24: a step that handles a mousedown, click or dblclick event whose
\* target is the recording indicator or lies inside it emits no action.
C24_IndicatorNeverRecorded ==
    [][(pointer' # pointer /\ insideIndicator(pointer'.target))
       => emitted' = emitted]_vars

\* a double-click on the indicator's stop button was handled with the
\* listeners attached, after an action had been recorded elsewhere
C24_Witness ==
    /\ pointer.pc = "done" /\ pointer.target = "stopButton" /\ pointer.heard
    /\ listener.isListening
    /\ Len(emitted) > 0

\* the call was sanitizeAction on an input action whose field the
\* sanitizer's own pattern sets call sensitive
SensitiveActionCall ==
    /\ sanitizerCall.fn = "sanitizeAction"
    /\ sanitizerCall.action.type = "input"
    /\ isSensitiveField(sanitizerCall.action.inputType,
                        sanitizerCall.action.inputType,
                        sanitizerCall.action.selector.name,
                        sanitizerCall.action.selector.id)

\* C25: when an input action of the capture layer whose input type,
\* selector name or selector id matches the sanitizer's sensitive patterns
\* has passed through sanitizeAction, its value is a mask (that of the text
\* typed, or that of the capture layer's own mask), whatever isSensitive
\* flag the capture layer gave it.
C25_SensitiveValueNeverLeaks ==
    SensitiveActionCall
    => sanitizerCall.out.value \in
         {sanitizeValue(sanitizerCall.typed, sanitizerCall.action.inputType,
                        sanitizerCall.action.selector.name,
                        sanitizerCall.action.selector.id),
          sanitizeValue(Masked, sanitizerCall.action.inputType,
                        sanitizerCall.action.selector.name,
                        sanitizerCall.action.selector.id)}

\* every digit outside the last 4 characters replaced by "*"
CardMask(value) ==
    [i \in 1..Len(value) |->
       IF i <= Len(value) - 4 /\ value[i] \in DigitChars THEN "*" ELSE value[i]]

\* the call was sanitizeValue for a sensitive field
SensitiveValueCall ==
    /\ sanitizerCall.fn = "sanitizeValue"
    /\ isSensitiveField(sanitizerCall.type, sanitizerCall.type,
                        sanitizerCall.name, sanitizerCall.id)

EmailMask(value) ==
    LET local == IndexOf(value, "@")
    IN IF local <= 2 THEN value
       ELSE [i \in 1..Len(value) |->
               IF i > 2 /\ i <= local THEN Bullet ELSE value[i]]

\* the claim's example: "jane.doe@example.com" and what it is to become,
\* "ja", 8 bullets, "@example.com"
JaneDoe ==
    <<"j", "a", "n", "e", ".", "d", "o", "e",
      "@", "e", "x", "a", "m", "p", "l", "e", ".", "c", "o", "m">>
JaneDoeMasked ==
    <<"j", "a">> \o Repeat(Bullet, 8)
       \o <<"@", "e", "x", "a", "m", "p", "l", "e", ".", "c", "o", "m">>

\* C27: sanitizeValue returns the partial mask for a value with an "@" in a
\* non-sensitive field of type email, "jane.doe@example.com" becomes "ja",
\* 8 bullets and "@example.com", and an input action of such a field that
\* has passed through sanitizeAction carries the partial mask of the text
\* typed.
C27_EmailPartiallyMasked ==
    /\ (/\ sanitizerCall.fn = "sanitizeValue"
        /\ sanitizerCall.type = "email"
        /\ sanitizerCall.value = JaneDoe
        /\ ~isSensitiveField(sanitizerCall.type, sanitizerCall.type,
                             sanitizerCall.name, sanitizerCall.id))
       => sanitizerCall.out = JaneDoeMasked
    /\ (/\ sanitizerCall.fn = "sanitizeValue"
        /\ sanitizerCall.type = "email"
        /\ ~isSensitiveField(sanitizerCall.type, sanitizerCall.type,
                             sanitizerCall.name, sanitizerCall.id))
       => sanitizerCall.out = EmailMask(sanitizerCall.value)
    /\ (/\ sanitizerCall.fn = "sanitizeAction"
        /\ sanitizerCall.action.type = "input"
        /\ sanitizerCall.action.inputType = "email"
        /\ ~isSensitiveField("email", "email",
                             sanitizerCall.action.selector.name,
                             sanitizerCall.action.selector.id))
       => sanitizerCall.out.value = EmailMask(sanitizerCall.typed)

StableIds ==
    {<<"o", "k">>,
     <<"l", "o", "g", "i", "n", "-", "b", "t", "n">>,
     <<"a", "b", "c", "1", "2", "3", "4">>,
     <<"f", "e", "e", "d", "b", "a", "c", "k">>}
\* ids with a framework prefix, a run of 6 or more digits, a dash and 13 or
\* more digits, or 8 or more leading hex characters
DynamicIds ==
    {<<"r", "e", "a", "c", "t", "-", "4", "8", "2", "1", "3">>,
     <<"V", "u", "e", "-", "m", "a", "i", "n">>,
     <<"n", "g", "-", "a", "p", "p">>,
     <<"e", "m", "b", "e", "r", "-", "v", "i", "e", "w">>,
     <<"i", "t", "e", "m", "1", "2", "3", "4", "5", "6">>,
     <<"r", "o", "w", "-", "1", "2", "3", "4", "5", "6", "7", "8", "9", "0", "1", "2", "3">>,
     <<"d", "e", "a", "d", "b", "e", "e", "f", "0", "1">>,
     <<"a", "b", "c", "1", "2", "3", "4", "5">>}

\* C29: for an element with a stable id the strategy has that id as its id
\* candidate and "id" first in priority; for an element whose id matches a
\* dynamic-ID heuristic the id candidate is absent and the first entry of
\* priority is the first populated candidate after id in the fixed order.
C29_DynamicIdRejected ==
    selectorCall.fn = "generateSelectors"
    => LET out == selectorCall.out
           id == selectorCall.element.id
       IN /\ id \in StableIds
               => /\ out.id = id
                  /\ out.priority[1] = "id"
          /\ id \in DynamicIds
               => /\ out.id = Absent
                  /\ out.priority[1] =
                       Head(SelectSeq(Tail(SelectorOrder),
                                      LAMBDA k : out[k] # Absent))

\* an input whose id starts with 8 hex characters and that has a name: the
\* id was dropped and the aria label or the name leads
C29_Witness ==
    /\ selectorCall.fn = "generateSelectors"
    /\ selectorCall.element.id = <<"a", "b", "c", "1", "2", "3", "4", "5">>
    /\ selectorCall.element.ariaLabel = <<>>
    /\ selectorCall.element.name # <<>>
    /\ selectorCall.out.id = Absent
    /\ selectorCall.out.priority[1] = "name"

\* C30: validateRecording does not throw on a structurally bad recording;
\* it returns a result whose isValid is true exactly when its error list is
\* empty, and a recording whose viewport width or height is 0 or negative
\* is invalid with an error whose field is recording.viewport.
C30_ValidatorNeverThrows ==
    sanitizerCall.fn = "validateRecording"
    => LET out == sanitizerCall.out
           viewport == sanitizerCall.recording.viewport
       IN /\ ~out.threw
          /\ out.isValid <=> out.errors = <<>>
          /\ (/\ Truthy(viewport)
              /\ \/ viewport.width.t = "number" /\ viewport.width.n <= 0
                 \/ viewport.height.t = "number" /\ viewport.height.n <= 0)
               => /\ ~out.isValid
                  /\ \E i \in 1..Len(out.errors) :
                       out.errors[i] = <<"recording.viewport">>

\* C40: validateSelector finds no error in the strategy generateSelectors
\* returned, whatever the element and the configuration, also when the
\* strategy has a position candidate.
C40_GeneratedStrategyValidates ==
    selectorCall.fn = "generateSelectors"
    => validateSelector(StrategyValue(selectorCall.out)) = <<>>

RECURSIVE Chain(_)
\* the raw target, its parent, its grandparent, ... strictly below the body
Chain(element) ==
    IF element = NoElement \/ element = Body THEN <<>>
    ELSE <<element>> \o Chain(Parent[element])

\* the first element of the chain that the classifier accepts, if any
Resolved(element) ==
    LET chain == Chain(element)
        hits == {i \in 1..Len(chain) : isInteractiveElement(chain[i])}
    IN IF hits = {} THEN NoElement
       ELSE chain[CHOOSE i \in hits : \A j \in hits : i <= j]

\* C33: for a raw target outside the recording indicator,
\* findInteractiveElement gives the nearest element of the chain target,
\* parent, ... below the body that the classifier accepts, and null when
\* there is none; a step that handles a pointer event on such a target emits
\* nothing when nothing is accepted, and an action it emits describes the
\* resolved element.
C33_ClickResolvesToInteractive ==
    [][(pointer' # pointer /\ ~insideIndicator(pointer'.target))
       => /\ findInteractiveElement(pointer'.target) = Resolved(pointer'.target)
          /\ Resolved(pointer'.target) = NoElement => emitted' = emitted
          /\ emitted' # emitted
               => /\ Len(emitted') = Len(emitted) + 1
                  /\ emitted'[Len(emitted')].target = Resolved(pointer'.target)]_vars

\* a press on the icon inside the link emitted an action for the link
C33_Witness ==
    /\ pointer.pc = "down" /\ pointer.target = "icon"
    /\ Len(emitted) = pointer.start + 1
    /\ emitted[Len(emitted)].target = "link"

\* what a step may make of the action lists, given everything of the state
\* before it except actionCache
AccumulatedFrom(st, stored) ==
    {st.accumulatedActions, <<>>,
     st.accumulatedActions \o NewActions(st.accumulatedActions, stored)}
      \cup {st.accumulatedActions \o pageActions : pageActions \in PageActions}
RecordingActionsFrom(st, frame) ==
    {frame.currentPageActions,
     SortByTimestamp(st.accumulatedActions \o frame.currentPageActions)}

\* C31: no step lets the content of actionCache flow on: after every step
\* accumulatedActions, the stored array, the page actions a stop has read
\* and the actions of the Recording a stop assembles are each determined by
\* the accumulated actions, the stored array and the handler frames before
\* the step, whatever actionCache holds.
C31_CacheOnlyForStatus ==
    [][/\ state'.accumulatedActions \in AccumulatedFrom(state, sessionActions)
       /\ sessionActions' \in {sessionActions, <<>>} \cup {syncH[i].actions : i \in SyncIds}
       /\ stopH'.currentPageActions \in {stopH.currentPageActions, sessionActions, <<>>}
       /\ stopH'.recording # stopH.recording /\ stopH'.recording # NoRecording
            => stopH'.recording.actions \in RecordingActionsFrom(state, stopH)
       /\ (resp'.op = "stop" /\ resp'.success) => resp'.data = stopH.recording]_vars

\* a stop has assembled its Recording while the mirror holds an array that is
\* neither empty nor what the stop read from storage
C31_Witness ==
    /\ stopH.pc = "save"
    /\ state.actionCache # <<>>
    /\ state.actionCache # stopH.currentPageActions
    /\ stopH.recording.actions # state.actionCache

\* C34: in every state of the coordinator isPaused implies isRecording, also
\* when a pause or resume that awaits the page's reply is interleaved with a
\* stop, the closing of the tab or a failed start, each of which resets the
\* state.
C34_PausedImpliesRecording == state.isPaused => state.isRecording

\* C36: the poll timer is armed only while the phase is Recording or Paused,
\* and a start that answers success leaves the phase Recording with
\* currentTabId set, also when the tab is closed while the start awaits the
\* page's reply.
C36_PollOnlyWhileRecording ==
    /\ state.pollingInterval => state.isRecording
    /\ (resp.op = "start" /\ resp.success)
         => state.isRecording /\ ~state.isPaused /\ state.currentTabId # 0

\* C37: accumulatedActions never holds two actions with the same timestamp,
\* after any interleaving of navigation merges and SAVE_CURRENT_STATE.
C37_AccumulatedTimestampsDistinct == DistinctTimestamps(state.accumulatedActions)

\* C38: after stop() has returned the callback is not invoked until start()
\* is called again: no step taken while the listener is stopped emits an
\* action, so an input timer armed before stop() does not emit afterwards.
C38_NoEmitAfterStop ==
    [][~listener.isListening /\ ~listener'.isListening => emitted' = emitted]_vars

\* the fields whose input events onInput handles
TextFields == {f \in FormFields : isTextField(f)}

\* C39: every field that received input while listening eventually gets an
\* input action: once onInput has taken an event on field f, an input action
\* for f is among the actions emitted since the run of input events began,
\* also when another field is typed into less than 500 ms afterwards (unless
\* the page clock of the model stops before the pending timer is due).
C39_EveryTypedFieldRecorded ==
    \A f \in TextFields :
       (listener.pendingInputElement = f)
          ~> \/ \E i \in (burst.start + 1)..Len(emitted) :
                    emitted[i].type = "input" /\ emitted[i].target = f
             \/ listener.inputDebounceTimer > MaxInputTime

\* C35: one session yields at most one persisted Recording: of two
\* STOP_RECORDING requests of one session at most one calls saveRecording
\* and answers success with a Recording, so two stop handlers are never
\* both waiting for saveRecording to settle for the same session.
C35_OneRecordingPerSession ==
    ~(/\ stopH.pc = "save" /\ stopH2.pc = "save"
      /\ stopH.entryClock = stopH2.entryClock)

\* C32: when the content script of a freshly loaded page has handled the
\* answer to GET_STATUS, its recorder is in the phase of the answer: for
\* recording or paused with a testName it records under that testName and the
\* indicator is shown, for paused the recorder and the indicator are paused
\* as well; for idle, a failed query or a missing testName it has not started.
C32_RestoredPhaseMatchesAnswer ==
    content.pc = "done" =>
       LET answer == content.answer
       IN IF answer.delivered /\ answer.state \in {"recording", "paused"}
             /\ answer.testName # ""
          THEN /\ content.recorder = [phase |-> answer.state, testName |-> answer.testName]
               /\ content.indicator.shown
               /\ content.indicator.testName = answer.testName
               /\ content.indicator.paused = (answer.state = "paused")
          ELSE content.recorder.phase = "idle" /\ ~content.indicator.shown

\* a page loaded while the session was paused has restored it
C32_Witness ==
    /\ content.pc = "done"
    /\ content.answer.state = "paused"
    /\ content.recorder.phase = "paused"
    /\ content.indicator.paused
====
